---------------------------- MODULE Spec2Model ----------------------------
(***************************************************************************)
(* A model of foxdie: the branch and push-request clean-up workflows       *)
(* (actions/local.rs, actions/push_requests.rs, main.rs) and the GitHub    *)
(* and GitLab provider clients (services/github, services/gitlab), the     *)
(* report workflow (actions/report.rs) and the provider detection of       *)
(* what_git (what_git/src/lib.rs).                                         *)
(*                                                                         *)
(* Strings are sequences of one-character strings, so that prefix          *)
(* stripping, header parsing and glob matching are computed, not assumed.  *)
(***************************************************************************)
EXTENDS Integers, Sequences, FiniteSets, TLC

VARIABLES
    call,       \* the function applied on its own: its inputs, steps and result
    gl,         \* Gitlab::list_push_requests: position, locals, requests sent
    gh,         \* GitHub::paginated_request: position, locals, requests sent
    args,       \* the command line: subcommand, --delete, --since
    pc,         \* where the run of main stands
    provider,   \* the provider client in use and what the provider answered
    locals,     \* the local variables of the workflow function running
    out,        \* what the run printed and the calls it issued, in order
    result      \* "running", then how run_matches ended: "ok", "err", "panic"

wfVars == <<args, pc, provider, locals, out, result>>

vars == <<call, gl, gh, args, pc, provider, locals, out, result>>

----------------------------------------------------------------------------
(* Strings                                                                 *)

\* Longest branch name drawn when a string function is applied on its own.
MaxLen == 5

\* Option<T>: None is the empty sequence, Some(x) the sequence holding x.
None == <<>>
Some(x) == <<x>>
IsSome(o) == o # <<>>
Unwrap(o) == o[1]

RECURSIVE StringsUpTo(_, _)
StringsUpTo(alphabet, n) ==
    IF n = 0 THEN {<<>>}
    ELSE LET shorter == StringsUpTo(alphabet, n - 1)
         IN  shorter \cup {Append(s, c) : s \in shorter, c \in alphabet}

starts_with(s, prefix) ==
    /\ Len(s) >= Len(prefix)
    /\ SubSeq(s, 1, Len(prefix)) = prefix

DropFirst(s, n) == SubSeq(s, n + 1, Len(s))

\* str::replace(from, ""): every non-overlapping match of `from`, scanning
\* left to right, is removed.
RECURSIVE str_replace_with_empty(_, _)
str_replace_with_empty(s, from) ==
    IF Len(s) < Len(from) \/ from = <<>> THEN s
    ELSE IF starts_with(s, from)
         THEN str_replace_with_empty(DropFirst(s, Len(from)), from)
         ELSE <<Head(s)>> \o str_replace_with_empty(Tail(s), from)

----------------------------------------------------------------------------
(* actions/local.rs: the short name of a tracking branch                   *)

removing_remote_from_tracking_branch(branch_name, remote_name) ==
    LET tracking_prefix == remote_name \o <<"/">>
    IN  str_replace_with_empty(branch_name, tracking_prefix)

\* The short name as the specification defines it: one literal leading
\* "{remote}/" removed, nothing else touched.
StripLeadingRemote(branch_name, remote_name) ==
    LET tracking_prefix == remote_name \o <<"/">>
    IN  IF starts_with(branch_name, tracking_prefix)
        THEN DropFirst(branch_name, Len(tracking_prefix))
        ELSE branch_name

----------------------------------------------------------------------------
(* Push requests as the providers report them, and the normalized type     *)

\* A push request as it exists on the provider. `number` is the user-facing
\* number, `internal_id` the provider's database id.
OpenRequest(number, source_branch, updated_at, source_project) ==
    [number |-> number, internal_id |-> 100 + number,
     source_branch |-> source_branch, target_branch |-> <<"m">>,
     updated_at |-> updated_at,
     source_project |-> source_project, target_project |-> 1]

\* gitlab/v4.rs MergeRequest: the record GitLab's API returns for a request.
MergeRequest(r) ==
    [id |-> r.internal_id, iid |-> r.number, project_id |-> r.target_project,
     updated_at |-> r.updated_at,
     target_branch |-> r.target_branch, source_branch |-> r.source_branch,
     source_project_id |-> r.source_project,
     target_project_id |-> r.target_project]

\* impl From<MergeRequest> for PushRequest
PushRequestFromMergeRequest(mr) ==
    [id |-> mr.iid, updated_at |-> mr.updated_at,
     target_project |-> mr.target_project_id,
     target_branch |-> mr.target_branch,
     source_project |-> mr.source_project_id,
     source_branch |-> mr.source_branch]

MapSeq(Op(_), s) == [i \in 1..Len(s) |-> Op(s[i])]

RECURSIVE ConcatAll(_)
ConcatAll(ss) == IF ss = <<>> THEN <<>> ELSE Head(ss) \o ConcatAll(Tail(ss))

----------------------------------------------------------------------------
(* services/gitlab/mod.rs: count-based pagination                          *)

\* Most items a provider puts on one page.
MaxPageItems == 2

\* A header the response does not carry.
Absent == None

Digits == {"0", "1", "2", "3", "4", "5", "6", "7", "8", "9"}
DigitValue == ("0" :> 0) @@ ("1" :> 1) @@ ("2" :> 2) @@ ("3" :> 3) @@ ("4" :> 4)
              @@ ("5" :> 5) @@ ("6" :> 6) @@ ("7" :> 7) @@ ("8" :> 8) @@ ("9" :> 9)

RECURSIVE DecimalValue(_)
DecimalValue(s) ==
    IF s = <<>> THEN 0
    ELSE 10 * DecimalValue(SubSeq(s, 1, Len(s) - 1)) + DigitValue[s[Len(s)]]

\* str::parse::<usize>(): an optional leading '+', then one or more decimal
\* digits; anything else (empty text, a '-', a letter) is an error. The
\* header texts drawn here are far below usize::MAX, so no overflow error.
parse_usize(s) ==
    LET digits == IF s # <<>> /\ Head(s) = "+" THEN Tail(s) ELSE s
    IN  IF digits # <<>> /\ \A i \in 1..Len(digits) : digits[i] \in Digits
        THEN Some(DecimalValue(digits))
        ELSE None

\* A bug that would take a header that is not there for page 1.
x_header_or_one(headers, key) ==
    IF headers[key] = Absent THEN Some(1) ELSE parse_usize(Unwrap(headers[key]))

\* Pages::x_header: the header's text parsed as usize, None when the header
\* is not there or does not parse.
x_header(headers, key) ==
    IF headers[key] = Absent THEN None ELSE parse_usize(Unwrap(headers[key]))

PagesNew(headers) ==
    [current     |-> x_header(headers, "x-page"),
     total_items |-> x_header(headers, "x-total"),
     total_pages |-> x_header(headers, "x-total-pages")]

\* The `if let Pages { current: Some(..), total_items: Some(..),
\* total_pages: Some(..), .. } = pages` pattern.
PagesMatched(pages) ==
    /\ pages.current # None
    /\ pages.total_items # None
    /\ pages.total_pages # None

\* A bug that would stop one page early (current..total_pages).
PageRangeExclusive(current, total_pages) == current..(total_pages - 1)

\* `current..=total_pages`
PageRange(current, total_pages) == current..total_pages

\* What GitLab answers to GET .../merge_requests?page=p with n requests on
\* the page.
MergeRequestsOnPage(p, n) ==
    [i \in 1..n |-> MergeRequest(OpenRequest(10 * p + i, <<"f">>, 0, 1))]

XPageTexts ==
    {Absent, Some(<<>>), Some(<<"1">>), Some(<<"2">>), Some(<<"+", "1">>),
     Some(<<"-", "1">>)}
XTotalTexts == {Absent, Some(<<"x">>), Some(<<"0">>), Some(<<"4">>)}
XTotalPagesTexts ==
    {Absent, Some(<<"x">>), Some(<<"0">>), Some(<<"1">>), Some(<<"2">>),
     Some(<<"3">>)}

HeadResponses ==
    {("x-page" :> a) @@ ("x-total" :> b) @@ ("x-total-pages" :> c) :
        a \in XPageTexts, b \in XTotalTexts, c \in XTotalPagesTexts}

CallIdle == [op |-> "idle"]
GitlabIdle == [pc |-> "idle"]
GitHubIdle == [pc |-> "idle"]

\* The workflow variables of a specification that runs one part on its own.
WorkflowIdle ==
    /\ args = [subcommand |-> "none"]
    /\ pc = "idle"
    /\ provider = [kind |-> "none"]
    /\ locals = [remote_name |-> <<>>]
    /\ out = <<>>
    /\ result = "idle"

GitlabStart ==
    [pc |-> "head", headers |-> None, pages |-> None, page |-> 0,
     capacity |-> 0, items |-> <<>>, requests |-> <<>>, result |-> "running"]

\* The HEAD request fails in transport: `?` returns the error.
GitlabHeadFails ==
    /\ gl.pc = "head"
    /\ gl' = [gl EXCEPT !.pc = "done", !.result = "err"]
    /\ UNCHANGED <<call, gh, wfVars>>

\* The HEAD response arrives; the loop is entered, or the empty listing
\* returned.
GitlabHead ==
    /\ gl.pc = "head"
    /\ \E h \in HeadResponses :
         LET pages == PagesNew(h)
             seen == [gl EXCEPT !.headers = Some(h), !.pages = Some(pages)]
         IN  gl' = IF PagesMatched(pages)
                   THEN LET current == Unwrap(pages.current)
                            total_items == Unwrap(pages.total_items)
                            total_pages == Unwrap(pages.total_pages)
                        IN  IF PageRange(current, total_pages) = {}
                            THEN [seen EXCEPT !.pc = "done",
                                              !.capacity = total_items,
                                              !.result = "ok"]
                            ELSE [seen EXCEPT !.pc = "page",
                                              !.capacity = total_items,
                                              !.page = current]
                   ELSE [seen EXCEPT !.pc = "done", !.result = "ok"]
    /\ UNCHANGED <<call, gh, wfVars>>

\* merge_requests_for_page fails: `?` returns the error, the items gathered
\* so far are dropped with the function's frame.
GitlabPageFails ==
    /\ gl.pc = "page"
    /\ gl' = [gl EXCEPT !.pc = "done", !.result = "err", !.items = <<>>,
                        !.requests = Append(@, [page |-> gl.page,
                                                response |-> None])]
    /\ UNCHANGED <<call, gh, wfVars>>

\* One turn of the loop: GET the page, convert, append.
GitlabPage ==
    /\ gl.pc = "page"
    /\ \E n \in 0..MaxPageItems :
         LET merge_requests == MergeRequestsOnPage(gl.page, n)
             push_requests == MapSeq(PushRequestFromMergeRequest, merge_requests)
             last == (gl.page + 1) \notin
                         PageRange(Unwrap(Unwrap(gl.pages).current),
                                   Unwrap(Unwrap(gl.pages).total_pages))
         IN  gl' = [gl EXCEPT
                       !.items = @ \o push_requests,
                       !.requests = Append(@, [page |-> gl.page,
                                               response |-> Some(merge_requests)]),
                       !.page = @ + 1,
                       !.pc = IF last THEN "done" ELSE "page",
                       !.result = IF last THEN "ok" ELSE @]
    /\ UNCHANGED <<call, gh, wfVars>>

InitGitlab == call = CallIdle /\ gh = GitHubIdle /\ WorkflowIdle /\ gl = GitlabStart

NextGitlab == GitlabHeadFails \/ GitlabHead \/ GitlabPageFails \/ GitlabPage

SpecGitlab == InitGitlab /\ [][NextGitlab]_vars

----------------------------------------------------------------------------
(* services/github: pull requests and Link-header pagination               *)

\* Longest chain of pages a GitHub listing is spread over.
MaxPages == 3

Quote == "\""
RepoOwner == <<"a">>

\* github/v3.rs PullRequest with its GitData: the record GitHub's API returns.
\* GitHub sets head.label to "<owner>:<branch>" and head.ref to the branch.
PullRequest(r) ==
    [id |-> r.internal_id, number |-> r.number, updated_at |-> r.updated_at,
     head |-> [label |-> RepoOwner \o <<":">> \o r.source_branch,
               git_ref |-> r.source_branch, repo_id |-> r.source_project],
     base |-> [label |-> RepoOwner \o <<":">> \o r.target_branch,
               git_ref |-> r.target_branch, repo_id |-> r.target_project]]

\* impl TryFrom<PullRequest> for PushRequest: never fails.
PushRequestFromPullRequest(pr) ==
    Some([id |-> pr.number, updated_at |-> pr.updated_at,
          target_project |-> pr.base.repo_id,
          target_branch |-> pr.base.label,
          source_project |-> pr.head.repo_id,
          source_branch |-> pr.head.label])

\* .map(TryFrom::try_from).filter_map(Result::ok).collect()
RECURSIVE FilterMapOk(_, _)
FilterMapOk(TryFrom(_), s) ==
    IF s = <<>> THEN <<>>
    ELSE LET converted == TryFrom(Head(s))
         IN  (IF IsSome(converted) THEN <<Unwrap(converted)>> ELSE <<>>)
                 \o FilterMapOk(TryFrom, Tail(s))

(* services/mod.rs: protected branches and their glob patterns             *)

\* glob::Pattern::new: the pattern compiled, None for a PatternError. Of the
\* texts drawn here only an unclosed "[" is an error.
PatternNew(text) ==
    IF \E i \in 1..Len(text) : text[i] = "[" THEN None ELSE Some(text)

\* glob::Pattern::matches with the default options: "?" is any one
\* character, "*" any run of characters, "/" included; the rest is literal.
RECURSIVE PatternMatches(_, _)
PatternMatches(pattern, s) ==
    IF pattern = <<>> THEN s = <<>>
    ELSE IF Head(pattern) = "*"
         THEN \/ PatternMatches(Tail(pattern), s)
              \/ s # <<>> /\ PatternMatches(pattern, Tail(s))
         ELSE /\ s # <<>>
              /\ Head(pattern) = "?" \/ Head(pattern) = Head(s)
              /\ PatternMatches(Tail(pattern), Tail(s))

\* ProtectedBranch::matches_branch
matches_branch(protected_branch, branch) ==
    PatternMatches(protected_branch.pattern, branch)

\* impl TryFrom<ProtectedBranch> (GitHub) and impl From<ProtectedBranch> for
\* Result (GitLab): the same conversion of the name the provider reports.
ProtectedBranchFromName(name) ==
    LET pattern == PatternNew(name)
    IN  IF IsSome(pattern) THEN Some([pattern |-> Unwrap(pattern)]) ELSE None

\* list_protected_branches of either client, for the names in the response.
list_protected_branches(names) == FilterMapOk(ProtectedBranchFromName, names)

\* str::split(char): the pieces between the separators, at least one piece.
RECURSIVE str_split(_, _)
str_split(s, sep) ==
    IF \A i \in 1..Len(s) : s[i] # sep THEN <<s>>
    ELSE LET i == CHOOSE i \in 1..Len(s) :
                      s[i] = sep /\ \A j \in 1..(i - 1) : s[j] # sep
         IN  <<SubSeq(s, 1, i - 1)>> \o str_split(SubSeq(s, i + 1, Len(s)), sep)

ends_with(s, suffix) ==
    /\ Len(s) >= Len(suffix)
    /\ SubSeq(s, Len(s) - Len(suffix) + 1, Len(s)) = suffix

\* str::trim_start_matches / trim_end_matches: the pattern is removed as
\* often as it repeats at that end.
RECURSIVE trim_start_matches(_, _)
trim_start_matches(s, pat) ==
    IF pat # <<>> /\ starts_with(s, pat)
    THEN trim_start_matches(DropFirst(s, Len(pat)), pat)
    ELSE s

RECURSIVE trim_end_matches(_, _)
trim_end_matches(s, pat) ==
    IF pat # <<>> /\ ends_with(s, pat)
    THEN trim_end_matches(SubSeq(s, 1, Len(s) - Len(pat)), pat)
    ELSE s

\* str::trim, for the one kind of white space a Link header holds.
str_trim(s) == trim_end_matches(trim_start_matches(s, <<" ">>), <<" ">>)

\* components.next().unwrap_or_default()
ComponentOrDefault(components, i) ==
    IF i <= Len(components) THEN components[i] ELSE <<>>

\* Link::parse_from_rfc5988
LinkParse(header) ==
    LET components == str_split(header, ";")
    IN  [uri |-> trim_end_matches(
                     trim_start_matches(
                         str_trim(ComponentOrDefault(components, 1)), <<"<">>),
                     <<">">>),
         rel |-> trim_end_matches(
                     trim_start_matches(
                         str_trim(ComponentOrDefault(components, 2)),
                         <<"r", "e", "l", "=", Quote>>),
                     <<Quote>>)]

\* Links::parse_from_rfc5988
LinksParse(header) == MapSeq(LinkParse, str_split(header, ","))

\* links.iter().find(|l| l.rel == rel)
LinksFind(links, rel) ==
    IF \E i \in 1..Len(links) : links[i].rel = rel
    THEN Some(links[CHOOSE i \in 1..Len(links) :
                        /\ links[i].rel = rel
                        /\ \A j \in 1..(i - 1) : links[j].rel # rel])
    ELSE None

\* A bug that would follow the "last" link.
LinksLast(links) == LinksFind(links, <<"l", "a", "s", "t">>)

\* Links::next
LinksNext(links) == LinksFind(links, <<"n", "e", "x", "t">>)

\* GitHub's side: the URI of page i, and the Link header it sends with page i
\* of k (prev, next, last, first, as they apply; none for a single page).
DigitChars == <<"1", "2", "3", "4", "5", "6", "7", "8", "9">>

PageUri(i) == <<"p", "=", DigitChars[i]>>

LinkEntry(uri, rel, space) ==
    <<"<">> \o uri \o <<">", ";">> \o space
        \o <<"r", "e", "l", "=", Quote>> \o rel \o <<Quote>>

RECURSIVE JoinEntries(_, _)
JoinEntries(entries, space) ==
    IF Len(entries) = 1 THEN Head(entries)
    ELSE Head(entries) \o <<",">> \o space \o JoinEntries(Tail(entries), space)

\* "github" is the header as GitHub writes it; "compact" carries the same
\* links without optional white space; "next-only" leaves out every link
\* but next, so the last page carries no Link header.
LinkStyles == {"github", "compact", "next-only"}

LinkHeader(i, k, style) ==
    LET space == IF style = "github" THEN <<" ">> ELSE <<>>
        all == style # "next-only"
        entries ==
            (IF all /\ i > 1
             THEN <<LinkEntry(PageUri(i - 1), <<"p", "r", "e", "v">>, space)>>
             ELSE <<>>)
            \o (IF i < k
                THEN <<LinkEntry(PageUri(i + 1), <<"n", "e", "x", "t">>, space)>>
                ELSE <<>>)
            \o (IF all /\ i < k
                THEN <<LinkEntry(PageUri(k), <<"l", "a", "s", "t">>, space)>>
                ELSE <<>>)
            \o (IF all /\ i > 1
                THEN <<LinkEntry(PageUri(1), <<"f", "i", "r", "s", "t">>, space)>>
                ELSE <<>>)
    IN  IF entries = <<>> THEN None ELSE Some(JoinEntries(entries, space))

\* The page a URI names on the server, None for a URI it does not know.
PageOfUri(uri, k) ==
    IF \E i \in 1..k : PageUri(i) = uri
    THEN Some(CHOOSE i \in 1..k : PageUri(i) = uri)
    ELSE None

PullRequestsOnPage(p, n) ==
    [i \in 1..n |-> PullRequest(OpenRequest(10 * p + i, <<"f">>, 0, 1))]

\* The records of one page of GitHub's protected branches: n of them, named
\* after the page and their place on it; the ones in `bad` have a name that
\* is no glob pattern.
ProtectedBranchesOnPage(p, n, bad) ==
    [i \in 1..n |-> (IF i \in bad THEN <<"[">> ELSE <<"b">>)
                        \o <<DigitChars[p], DigitChars[i]>>]

\* What a page of the listing may hold, by the type the records are read as.
PageItems(intermediate, p) ==
    IF intermediate = "PullRequest"
    THEN {PullRequestsOnPage(p, n) : n \in 0..MaxPageItems}
    ELSE UNION {{ProtectedBranchesOnPage(p, n, bad) : bad \in SUBSET (1..n)} :
                   n \in 0..MaxPageItems}

\* A bug that would give up a whole page for one record that does not convert.
ConvertAllOrNothing(intermediate, page_items) ==
    IF intermediate = "PullRequest"
    THEN FilterMapOk(PushRequestFromPullRequest, page_items)
    ELSE IF \A i \in 1..Len(page_items) :
                IsSome(ProtectedBranchFromName(page_items[i]))
         THEN FilterMapOk(ProtectedBranchFromName, page_items)
         ELSE <<>>

\* page_items.into_iter().map(TryFrom::try_from).filter_map(Result::ok)
Convert(intermediate, page_items) ==
    IF intermediate = "PullRequest"
    THEN FilterMapOk(PushRequestFromPullRequest, page_items)
    ELSE FilterMapOk(ProtectedBranchFromName, page_items)

\* paginated_request::<_, PullRequest, _>, as list_push_requests calls it.
GitHubStart(k, style) ==
    [pc |-> "first", k |-> k, style |-> style, url |-> PageUri(1),
     intermediate |-> "PullRequest", headers |-> None,
     items |-> <<>>, requests |-> <<>>, result |-> "running"]

\* A bug that would leave the loop after the first response.
NextUriIgnoringLinks(headers) == None

\* `while let Some(link_header) = headers.get(LINK)...`: the next URI to
\* request, None when the loop is left (no header, or no "next" link).
NextUri(headers) ==
    IF IsSome(headers)
    THEN LET next == LinksNext(LinksParse(Unwrap(headers)))
         IN  IF IsSome(next) THEN Some(Unwrap(next).uri) ELSE None
    ELSE None

\* A bug that would answer a failed request with the pages gathered so far.
GitHubRequestFailsKeepingPages ==
    /\ gh.pc \in {"first", "next"}
    /\ gh' = [gh EXCEPT !.pc = "done", !.result = "ok",
                        !.requests = Append(@, [uri |-> gh.url,
                                                response |-> None])]
    /\ UNCHANGED <<call, gl, wfVars>>

\* A request fails in transport, or its body is not the JSON array expected
\* (as for a URI the server does not serve): `?` returns the error.
GitHubRequestFails ==
    /\ gh.pc \in {"first", "next"}
    /\ gh' = [gh EXCEPT !.pc = "done", !.result = "err", !.items = <<>>,
                        !.requests = Append(@, [uri |-> gh.url,
                                                response |-> None])]
    /\ UNCHANGED <<call, gl, wfVars>>

\* A page arrives: its items are converted and appended, its headers kept,
\* and the loop condition decides between the next request and Ok(items).
GitHubPage ==
    /\ gh.pc \in {"first", "next"}
    /\ IsSome(PageOfUri(gh.url, gh.k))
    /\ \E page_items \in PageItems(gh.intermediate,
                                    Unwrap(PageOfUri(gh.url, gh.k))) :
         LET page == Unwrap(PageOfUri(gh.url, gh.k))
             headers == LinkHeader(page, gh.k, gh.style)
             next == NextUri(headers)
         IN  gh' = [gh EXCEPT
                       !.headers = headers,
                       !.items = @ \o Convert(gh.intermediate, page_items),
                       !.requests = Append(@, [uri |-> gh.url,
                                               response |-> Some(page_items)]),
                       !.url = IF IsSome(next) THEN Unwrap(next) ELSE @,
                       !.pc = IF IsSome(next) THEN "next" ELSE "done",
                       !.result = IF IsSome(next) THEN @ ELSE "ok"]
    /\ UNCHANGED <<call, gl, wfVars>>

InitGitHub ==
    /\ call = CallIdle
    /\ gl = GitlabIdle
    /\ WorkflowIdle
    /\ \E k \in 1..MaxPages, style \in LinkStyles : gh = GitHubStart(k, style)

NextGitHub == GitHubRequestFails \/ GitHubPage

SpecGitHub == InitGitHub /\ [][NextGitHub]_vars

\* Every request sent is answered or fails: the awaited future resolves.
SpecGitHubLive == SpecGitHub /\ WF_vars(NextGitHub)

\* paginated_request::<_, ProtectedBranch, _>, as list_protected_branches
\* calls it.
InitGitHubProtectedBranches ==
    /\ call = CallIdle
    /\ gl = GitlabIdle
    /\ WorkflowIdle
    /\ \E k \in 1..MaxPages, style \in LinkStyles :
         gh = [GitHubStart(k, style) EXCEPT !.intermediate = "ProtectedBranch"]

\* Gitlab::list_protected_branches: one GET, no pages.
InitGitlabProtectedBranches ==
    /\ call = CallIdle
    /\ gh = GitHubIdle
    /\ WorkflowIdle
    /\ gl = [GitlabStart EXCEPT !.pc = "protected_branches"]

GitlabProtectedBranchesFails ==
    /\ gl.pc = "protected_branches"
    /\ gl' = [gl EXCEPT !.pc = "done", !.result = "err",
                        !.requests = Append(@, [page |-> 0, response |-> None])]
    /\ UNCHANGED <<call, gh, wfVars>>

GitlabProtectedBranches ==
    /\ gl.pc = "protected_branches"
    /\ \E names \in PageItems("ProtectedBranch", 1) :
         gl' = [gl EXCEPT !.pc = "done", !.result = "ok",
                          !.items = list_protected_branches(names),
                          !.requests = Append(@, [page |-> 0,
                                                  response |-> Some(names)])]
    /\ UNCHANGED <<call, gh, wfVars>>

\* A listing by a client of either kind.
InitListing ==
    \/ InitGitlab
    \/ InitGitHub
    \/ InitGitlabProtectedBranches
    \/ InitGitHubProtectedBranches

NextListing ==
    \/ GitlabHeadFails
    \/ GitlabHead
    \/ GitlabPageFails
    \/ GitlabPage
    \/ GitlabProtectedBranchesFails
    \/ GitlabProtectedBranches
    \/ GitHubRequestFails
    \/ GitHubPage

SpecListing == InitListing /\ [][NextListing]_vars

----------------------------------------------------------------------------
(* services/git and actions/local.rs: which branches to delete             *)

\* Most remote-tracking branches in the repository.
MaxBranches == 2
\* Latest time, in epoch seconds, of a commit or of a push request's update.
MaxTime == 2
\* Most open push requests the push-requests workflow is given.
MaxPulls == 2

CommitTimes == 0..MaxTime
SinceDates == 1..(MaxTime - 1)

\* What a reference points at. The upstream of HEAD points at CurrentRef.
CurrentRef == 1
RefTargets == {1, 2}

TrackingNames == {<<"o", "/", "f">>, <<"o", "/", "o", "/", "f">>}

\* One item of repo.branches(Remote): `ok` is whether the item is Ok, `name`
\* is branch.name() (None: not valid UTF-8), `ref` what branch.get() points
\* at, `time` the time of the commit it resolves to (None: no commit found).
Branch(ok, name, ref, time) ==
    [ok |-> ok, name |-> name, ref |-> ref, time |-> time]

NamedBranches ==
    {Branch(TRUE, Some(n), r, t) :
        n \in TrackingNames, r \in RefTargets,
        t \in {Some(x) : x \in CommitTimes} \cup {None}}

UndecodableBranch == Branch(TRUE, None, 2, Some(0))

\* A stale tracking branch of the remote "u": repo.branches(Remote) yields
\* the tracking branches of every remote.
ForeignBranch == Branch(TRUE, Some(<<"u", "/", "f">>), 2, Some(0))
UnreadableBranch == Branch(FALSE, None, 2, Some(0))

\* A repository holds no two references of one name.
DistinctBranches(branches) ==
    \A i, j \in 1..Len(branches) :
        i < j => /\ branches[i] # branches[j]
                 /\ (IsSome(branches[i].name) /\ branches[i].ok
                         /\ IsSome(branches[j].name) /\ branches[j].ok)
                        => branches[i].name # branches[j].name

BranchLists ==
    {branches \in StringsUpTo(NamedBranches
                                \cup {UndecodableBranch, UnreadableBranch,
                                      ForeignBranch},
                              MaxBranches) : DistinctBranches(branches)}

\* A bug that would count a commit made at the cutoff as an update.
has_branch_updated_since_or_at(branch, date) ==
    IF IsSome(branch.time) THEN Some(Unwrap(branch.time) >= date) ELSE None

\* git::has_branch_updated_since: None stands for Err.
has_branch_updated_since(branch, date) ==
    IF IsSome(branch.time) THEN Some(Unwrap(branch.time) > date) ELSE None

unwrap_or(o, default) == IF IsSome(o) THEN Unwrap(o) ELSE default

\* A bug that would take a branch without a commit time for a stale one.
updated_since_or_false(branch, since_date) ==
    unwrap_or(has_branch_updated_since(branch, since_date), FALSE)

\* has_branch_updated_since(..).unwrap_or(true)
updated_since_or_true(branch, since_date) ==
    unwrap_or(has_branch_updated_since(branch, since_date), TRUE)

\* The names `branch.name().into_iter().flatten()` yields: one or none.
NamesOf(branch) == IF IsSome(branch.name) THEN {Unwrap(branch.name)} ELSE {}

\* Reference's equality compares what the two references point at.
is_branch_to_delete(remote_name, current_branch, since_date, push_requests, protected_branches, branch) ==
    \E name \in NamesOf(branch) :
        LET branch_name == removing_remote_from_tracking_branch(name,
                                                                remote_name)
        IN  /\ branch.ref # current_branch.ref
            /\ ~updated_since_or_true(branch, since_date)
            /\ ~\E i \in 1..Len(push_requests) :
                    push_requests[i].source_branch = branch_name
            /\ ~\E i \in 1..Len(protected_branches) :
                    matches_branch(protected_branches[i], branch_name)

\* all_branches.filter_map(|res| res.ok()).filter(is_branch_to_delete(..))
BranchesToDelete(remote_name, current_branch, since_date, push_requests, protected_branches, all_branches) ==
    LET Chosen(branch) ==
            /\ branch.ok
            /\ is_branch_to_delete(remote_name, current_branch, since_date,
                                   push_requests, protected_branches, branch)
    IN  SelectSeq(all_branches, Chosen)

\* branches.iter().filter_map(|branch| branch.name().ok()).flatten()
BranchNames(branches) ==
    LET Named(branch) == IsSome(branch.name)
        NameOf(branch) == Unwrap(branch.name)
    IN  MapSeq(NameOf, SelectSeq(branches, Named))

\* The refspecs delete_branches_if_needed pushes: "+:refs/heads/{short}".
Refspecs(branches, remote_name) ==
    LET Refspec(name) ==
            <<"+", ":", "r", "e", "f", "s", "/", "h", "e", "a", "d", "s", "/">>
                \o removing_remote_from_tracking_branch(name, remote_name)
    IN  MapSeq(Refspec, BranchNames(branches))

\* A bug that would go on to the mutating calls in a dry run.
NeverStops(should_delete) == FALSE

\* `if !should_delete { return Ok(()); }` after the listing is printed.
StopsBeforeMutation(should_delete) == ~should_delete

\* A bug that would close a push request updated at the cutoff.
is_eligible_or_at_cutoff(pr, since_date) ==
    pr.target_project = pr.source_project /\ pr.updated_at <= since_date

\* The filter of clean_push_requests.
is_eligible_push_request(pr, since_date) ==
    pr.target_project = pr.source_project /\ pr.updated_at < since_date

\* all_push_requests.into_iter().filter(..).collect()
eligible_push_requests(all_push_requests, since_date) ==
    LET Eligible(pr) == is_eligible_push_request(pr, since_date)
    IN  SelectSeq(all_push_requests, Eligible)

----------------------------------------------------------------------------
(* main.rs, actions/local.rs, actions/push_requests.rs: the two workflows  *)

ProviderKinds == {"GitHub", "Gitlab"}

\* The remotes of the repository, by name, in the order repo.remotes() gives.
RepoRemotes == {<<<<"o">>>>, <<<<"u">>, <<"o">>>>, <<<<"o">>, <<"u">>>>}

\* The remotes whose URL is that of no provider: what_git never returns a
\* descriptor for them.
RemotesWithoutProvider == {<<"u">>}

\* What is open on the provider when the branches workflow lists: nothing,
\* or one push request from branch "f", or one from branch "o/f".
OpenForBranches ==
    {<<>>} \cup {<<OpenRequest(1, b, 0, 1)>> : b \in {<<"f">>, <<"o", "/", "f">>}}

\* What is open when the push-requests workflow lists: up to n requests,
\* each updated at some time, from the repository itself (project 1) or from
\* a fork (project 2).
RECURSIVE OpenForClosing(_)
OpenForClosing(n) ==
    IF n = 0 THEN {<<>>}
    ELSE LET shorter == OpenForClosing(n - 1)
         IN  shorter \cup
             {Append(s, OpenRequest(Len(s) + 1, <<"f">>, t, p)) :
                 s \in {x \in shorter : Len(x) = n - 1},
                 t \in CommitTimes, p \in {1, 2}}

\* The HEAD response of GitLab for a listing that fits one page, and one
\* that carries no x-total-pages.
HeadOfOnePage(n) ==
    ("x-page" :> Some(<<"1">>)) @@ ("x-total" :> Some(<<DigitChars[n + 1]>>))
        @@ ("x-total-pages" :> Some(<<"1">>))

HeadWithoutTotalPages(n) ==
    ("x-page" :> Some(<<"1">>)) @@ ("x-total" :> Some(<<DigitChars[n + 1]>>))
        @@ ("x-total-pages" :> Absent)

\* What list_push_requests exchanges with the provider and returns, for the
\* requests open there: `received` is every record the responses carried,
\* `returned` the Vec<PushRequest> handed to the workflow.
GitHubListing(open) ==
    LET received == MapSeq(PullRequest, open)
    IN  [open |-> open, received |-> received,
         returned |-> FilterMapOk(PushRequestFromPullRequest, received)]

GitlabListing(open, headers) ==
    LET pages == PagesNew(headers)
        received == IF PagesMatched(pages) THEN MapSeq(MergeRequest, open)
                    ELSE <<>>
    IN  [open |-> open, received |-> received,
         returned |-> MapSeq(PushRequestFromMergeRequest, received)]

Listings(kind, opens) ==
    IF kind = "GitHub"
    THEN {GitHubListing(open) : open \in opens}
    ELSE {GitlabListing(open, HeadOfOnePage(Len(open))) : open \in opens}
         \cup {GitlabListing(open, HeadWithoutTotalPages(Len(open))) :
                  open \in opens}

\* The names the provider reports as protected.
ProtectedNames == {<<>>, <<<<"f">>>>, <<<<"o", "*">>>>}

Event(ev, remote, items, count, total) ==
    [ev |-> ev, remote |-> remote, items |-> items,
     count |-> count, total |-> total]

NoProvider ==
    [kind |-> "none", open |-> <<>>, listed |-> <<>>, protected |-> <<>>]

NoLocals ==
    [remotes |-> <<>>, remote_name |-> <<>>,
     current_remote_branch |-> [ref |-> 0],
     all_push_requests |-> <<>>, all_protected_branches |-> <<>>,
     all_branches |-> <<>>, all_branches_count |-> 0,
     branches_to_delete |-> <<>>, eligible_push_requests |-> <<>>,
     closed |-> 0]

Return(value) == pc' = "done" /\ result' = value

\* run_matches: the dry-run warning, then the workflow of the subcommand.
RunMatches ==
    /\ pc = "run_matches"
    /\ out' = IF ~args.should_delete
              THEN Append(out, Event("dry_run_warning", <<>>, <<>>, 0, 0))
              ELSE out
    /\ pc' = IF args.subcommand = "branches" THEN "open_repository"
             ELSE "get_api_client"
    /\ UNCHANGED <<call, gl, gh, args, provider, locals, result>>

\* clean_remote_branches: open_repository or repo.remotes() fails.
OpenRepositoryFails ==
    /\ pc = "open_repository"
    /\ Return("err")
    /\ UNCHANGED <<call, gl, gh, args, provider, locals, out>>

OpenRepository ==
    /\ pc = "open_repository"
    /\ \E remotes \in RepoRemotes : locals' = [locals EXCEPT !.remotes = remotes]
    /\ pc' = "for_remote"
    /\ UNCHANGED <<call, gl, gh, args, provider, out, result>>

\* The loop over the remotes is through.
RemotesDone ==
    /\ pc = "for_remote"
    /\ locals.remotes = <<>>
    /\ Return("ok")
    /\ UNCHANGED <<call, gl, gh, args, provider, locals, out>>

\* clean_branches_on_remote: no client for the remote's URL; a warning, and
\* Ok(()) for this remote.
UnsupportedRemote ==
    /\ pc = "for_remote"
    /\ locals.remotes # <<>>
    /\ out' = Append(out, Event("unsupported_provider", Head(locals.remotes),
                                <<>>, 0, 0))
    /\ locals' = [NoLocals EXCEPT !.remotes = Tail(locals.remotes),
                                  !.remote_name = Head(locals.remotes)]
    /\ provider' = NoProvider
    /\ UNCHANGED <<call, gl, gh, args, pc, result>>

\* clean_branches_on_remote: what_git panics on the remote's URL (a URL
\* without path segments), and the run ends there.
DetectionPanics ==
    /\ pc = "for_remote"
    /\ locals.remotes # <<>>
    /\ locals' = [NoLocals EXCEPT !.remotes = Tail(locals.remotes),
                                  !.remote_name = Head(locals.remotes)]
    /\ provider' = NoProvider
    /\ Return("panic")
    /\ UNCHANGED <<call, gl, gh, args, out>>

\* clean_branches_on_remote: a client of either kind for the remote.
SupportedRemote ==
    /\ pc = "for_remote"
    /\ locals.remotes # <<>>
    /\ Head(locals.remotes) \notin RemotesWithoutProvider
    /\ \E kind \in ProviderKinds : provider' = [NoProvider EXCEPT !.kind = kind]
    /\ locals' = [NoLocals EXCEPT !.remotes = Tail(locals.remotes),
                                  !.remote_name = Head(locals.remotes)]
    /\ pc' = "fetch_refs"
    /\ UNCHANGED <<call, gl, gh, args, out, result>>

\* fetch_refs, get_current_branch or upstream() fails: `?` returns the error.
FetchRefsFails ==
    /\ pc = "fetch_refs"
    /\ Return("err")
    /\ UNCHANGED <<call, gl, gh, args, provider, locals, out>>

FetchRefs ==
    /\ pc = "fetch_refs"
    /\ locals' = [locals EXCEPT !.current_remote_branch = [ref |-> CurrentRef]]
    /\ out' = Append(out, Event("fetch_refs", locals.remote_name, <<>>, 0, 0))
    /\ pc' = "list_push_requests"
    /\ UNCHANGED <<call, gl, gh, args, provider, result>>

ListPushRequestsFailsAndGoesOn ==
    /\ pc = "list_push_requests"
    /\ out' = Append(out, Event("list_push_requests_failed",
                                locals.remote_name, <<>>, 0, 0))
    /\ pc' = "for_remote"
    /\ UNCHANGED <<call, gl, gh, args, provider, locals, result>>

\* list_push_requests(..)? : the provider's error is returned.
ListPushRequestsFails ==
    /\ pc = "list_push_requests"
    /\ out' = Append(out, Event("list_push_requests_failed",
                                locals.remote_name, <<>>, 0, 0))
    /\ Return("err")
    /\ UNCHANGED <<call, gl, gh, args, provider, locals>>

ListPushRequests ==
    /\ pc = "list_push_requests"
    /\ \E listing \in Listings(provider.kind, OpenForBranches) :
         /\ provider' = [provider EXCEPT !.open = listing.open,
                                          !.listed = listing.received]
         /\ locals' = [locals EXCEPT !.all_push_requests = listing.returned]
    /\ out' = Append(out, Event("list_push_requests", locals.remote_name,
                                <<>>, 0, 0))
    /\ pc' = "list_protected_branches"
    /\ UNCHANGED <<call, gl, gh, args, result>>

\* list_protected_branches or get_remote_branches fails.
ListProtectedBranchesFails ==
    /\ pc = "list_protected_branches"
    /\ out' = Append(out, Event("list_protected_branches_failed",
                                locals.remote_name, <<>>, 0, 0))
    /\ Return("err")
    /\ UNCHANGED <<call, gl, gh, args, provider, locals>>

\* The protected branches arrive; the branches of the repository are read,
\* the ones to delete selected and printed; a dry run returns here.
ListProtectedBranches ==
    /\ pc = "list_protected_branches"
    /\ \E names \in ProtectedNames, all_branches \in BranchLists :
         LET all_protected_branches == list_protected_branches(names)
             branches_to_delete ==
                 BranchesToDelete(locals.remote_name,
                                  locals.current_remote_branch,
                                  args.since_date, locals.all_push_requests,
                                  all_protected_branches, all_branches)
         IN  /\ provider' = [provider EXCEPT !.protected = names]
             /\ locals' = [locals EXCEPT
                    !.all_protected_branches = all_protected_branches,
                    !.all_branches = all_branches,
                    !.all_branches_count = Len(all_branches),
                    !.branches_to_delete = branches_to_delete]
             /\ out' = out \o
                    <<Event("list_protected_branches", locals.remote_name,
                            <<>>, 0, 0),
                      Event("print_branches_to_delete", locals.remote_name,
                            BranchNames(branches_to_delete),
                            Len(branches_to_delete), Len(all_branches))>>
    /\ pc' = IF StopsBeforeMutation(args.should_delete) THEN "for_remote"
             ELSE "push_to_remote"
    /\ UNCHANGED <<call, gl, gh, args, result>>

\* delete_branches_if_needed: the one push of all refspecs fails.
PushToRemoteFails ==
    /\ pc = "push_to_remote"
    /\ out' = Append(out,
           Event("push_to_remote_failed", locals.remote_name,
                 Refspecs(locals.branches_to_delete, locals.remote_name),
                 0, 0))
    /\ Return("err")
    /\ UNCHANGED <<call, gl, gh, args, provider, locals>>

PushToRemote ==
    /\ pc = "push_to_remote"
    /\ out' = Append(out,
           Event("push_to_remote", locals.remote_name,
                 Refspecs(locals.branches_to_delete, locals.remote_name),
                 0, 0))
    /\ pc' = "for_remote"
    /\ UNCHANGED <<call, gl, gh, args, provider, locals, result>>

\* clean_push_requests: no client for the URL is an error.
UnsupportedUrl ==
    /\ pc = "get_api_client"
    /\ Return("err")
    /\ UNCHANGED <<call, gl, gh, args, provider, locals, out>>

\* clean_push_requests: what_git panics on the URL given.
DetectionPanicsForUrl ==
    /\ pc = "get_api_client"
    /\ Return("panic")
    /\ UNCHANGED <<call, gl, gh, args, provider, locals, out>>

SupportedUrl ==
    /\ pc = "get_api_client"
    /\ \E kind \in ProviderKinds : provider' = [NoProvider EXCEPT !.kind = kind]
    /\ pc' = "clean_push_requests"
    /\ UNCHANGED <<call, gl, gh, args, locals, out, result>>

\* list_push_requests(..).await? : the provider's error is returned.
CleanPushRequestsFails ==
    /\ pc = "clean_push_requests"
    /\ out' = Append(out, Event("list_push_requests_failed", <<>>, <<>>, 0, 0))
    /\ Return("err")
    /\ UNCHANGED <<call, gl, gh, args, provider, locals>>

\* The listing arrives; the push requests to close are selected and printed;
\* a dry run returns here, and so does a run with nothing to close.
CleanPushRequests ==
    /\ pc = "clean_push_requests"
    /\ \E listing \in Listings(provider.kind, OpenForClosing(MaxPulls)) :
         LET eligible == eligible_push_requests(listing.returned,
                                                args.since_date)
             Id(pr) == pr.id
             finished == \/ StopsBeforeMutation(args.should_delete)
                         \/ eligible = <<>>
         IN  /\ provider' = [provider EXCEPT !.open = listing.open,
                                              !.listed = listing.received]
             /\ locals' = [locals EXCEPT
                    !.all_push_requests = listing.returned,
                    !.eligible_push_requests = eligible]
             /\ out' = Append(out,
                    Event("print_push_requests_to_close", <<>>,
                          MapSeq(Id, eligible),
                          Len(eligible), Len(listing.returned)))
             /\ pc' = IF finished THEN "done" ELSE "close_push_request"
             /\ result' = IF finished THEN "ok" ELSE result
    /\ UNCHANGED <<call, gl, gh, args>>

ClosePushRequestFailsAndGoesOn ==
    /\ pc = "close_push_request"
    /\ LET closed == locals.closed + 1
           finished == closed = Len(locals.eligible_push_requests)
       IN  /\ out' = Append(out,
                  Event("close_push_request_failed", <<>>,
                        <<locals.eligible_push_requests[closed].id>>, 0, 0))
           /\ locals' = [locals EXCEPT !.closed = closed]
           /\ pc' = IF finished THEN "done" ELSE pc
           /\ result' = IF finished THEN "ok" ELSE result
    /\ UNCHANGED <<call, gl, gh, args, provider>>

\* close_push_request(pr.id) fails: `?` returns the error, the rest stay open.
ClosePushRequestFails ==
    /\ pc = "close_push_request"
    /\ out' = Append(out,
           Event("close_push_request_failed", <<>>,
                 <<locals.eligible_push_requests[locals.closed + 1].id>>, 0, 0))
    /\ Return("err")
    /\ UNCHANGED <<call, gl, gh, args, provider, locals>>

ClosePushRequest ==
    /\ pc = "close_push_request"
    /\ LET closed == locals.closed + 1
           finished == closed = Len(locals.eligible_push_requests)
       IN  /\ out' = Append(out,
                  Event("close_push_request", <<>>,
                        <<locals.eligible_push_requests[closed].id>>, 0, 0))
           /\ locals' = [locals EXCEPT !.closed = closed]
           /\ pc' = IF finished THEN "done" ELSE pc
           /\ result' = IF finished THEN "ok" ELSE result
    /\ UNCHANGED <<call, gl, gh, args, provider>>

Init ==
    /\ call = CallIdle
    /\ gl = GitlabIdle
    /\ gh = GitHubIdle
    /\ args \in [subcommand : {"branches", "push-requests"},
                 should_delete : BOOLEAN, since_date : SinceDates]
    /\ pc = "run_matches"
    /\ provider = NoProvider
    /\ locals = NoLocals
    /\ out = <<>>
    /\ result = "running"

Next ==
    \/ RunMatches
    \/ OpenRepositoryFails
    \/ OpenRepository
    \/ RemotesDone
    \/ UnsupportedRemote
    \/ DetectionPanics
    \/ SupportedRemote
    \/ FetchRefsFails
    \/ FetchRefs
    \/ ListPushRequestsFails
    \/ ListPushRequests
    \/ ListProtectedBranchesFails
    \/ ListProtectedBranches
    \/ PushToRemoteFails
    \/ PushToRemote
    \/ UnsupportedUrl
    \/ DetectionPanicsForUrl
    \/ SupportedUrl
    \/ CleanPushRequestsFails
    \/ CleanPushRequests
    \/ ClosePushRequestFails
    \/ ClosePushRequest

Spec == Init /\ [][Next]_vars

----------------------------------------------------------------------------
(* what_git/src/lib.rs: which provider a repository URL belongs to         *)

Letters ==
    {"a", "b", "c", "d", "e", "f", "g", "h", "i", "j", "k", "l", "m",
     "n", "o", "p", "q", "r", "s", "t", "u", "v", "w", "x", "y", "z"}

\* The first place of `pat` in s, 0 when there is none.
IndexOf(s, pat) ==
    LET places == {i \in 1..(Len(s) - Len(pat) + 1) :
                      SubSeq(s, i, i + Len(pat) - 1) = pat}
    IN  IF places = {} THEN 0
        ELSE CHOOSE i \in places : \A j \in places : i <= j

\* str::rfind: the last place of `pat` in s, 0 when there is none.
rfind(s, pat) ==
    LET places == {i \in 1..(Len(s) - Len(pat) + 1) :
                      SubSeq(s, i, i + Len(pat) - 1) = pat}
    IN  IF places = {} THEN 0
        ELSE CHOOSE i \in places : \A j \in places : i >= j

\* str::replacen(from, to, 1): the first match replaced, if there is one.
replacen_once(s, from, to) ==
    LET i == IndexOf(s, from)
    IN  IF i = 0 THEN s
        ELSE SubSeq(s, 1, i - 1) \o to \o DropFirst(s, i + Len(from) - 1)

GitAt == <<"g", "i", "t", "@">>
GitScheme == <<"g", "i", "t", ":", "/", "/">>
Https == <<"h", "t", "t", "p", "s", ":", "/", "/">>
DotGit == <<".", "g", "i", "t">>
GitHubCom == <<"g", "i", "t", "h", "u", "b", ".", "c", "o", "m">>
GitlabCom == <<"g", "i", "t", "l", "a", "b", ".", "c", "o", "m">>
Www == <<"w", "w", "w", ".">>
Api == <<"a", "p", "i", ".">>

scrub_git_url_always(repository) ==
    replacen_once(replacen_once(repository, <<":">>, <<"/">>),
                  GitAt, GitScheme)

scrub_git_url_if_needed(repository) ==
    IF starts_with(repository, GitAt)
    THEN replacen_once(replacen_once(repository, <<":">>, <<"/">>),
                       GitAt, GitScheme)
    ELSE repository

\* The schemes the URL Standard calls special, as far as they occur here.
SpecialSchemes ==
    {<<"h", "t", "t", "p">>, <<"h", "t", "t", "p", "s">>, <<"f", "i", "l", "e">>}

FileScheme == <<"f", "i", "l", "e">>

\* The host of an authority: what follows the user info, without the port.
HostOfAuthority(authority) ==
    LET at == rfind(authority, <<"@">>)
        host_port == DropFirst(authority, at)
        colon == IndexOf(host_port, <<":">>)
    IN  IF colon = 0 THEN host_port ELSE SubSeq(host_port, 1, colon - 1)

\* A host that is four runs of digits: an IPv4 address, not a domain.
IsIpv4(host) ==
    LET parts == str_split(host, ".")
    IN  /\ Len(parts) = 4
        /\ \A i \in 1..4 :
             parts[i] # <<>> /\ \A j \in 1..Len(parts[i]) : parts[i][j] \in Digits

\* Url::parse, for the forms of text drawn here: None is a ParseError. A URL
\* is its scheme, its host if it has one, its path, and whether it is a
\* cannot-be-a-base URL (a scheme followed by text that is no path).
UrlParse(text) ==
    LET colon == IndexOf(text, <<":">>)
        scheme == SubSeq(text, 1, colon - 1)
        rest == DropFirst(text, colon)
        special == scheme \in SpecialSchemes
        Url(host, path, base) ==
            Some([scheme |-> scheme, host |-> host, path |-> path,
                  cannot_be_a_base |-> ~base,
                  text |-> IF path = <<"/">> /\ ~ends_with(text, <<"/">>)
                           THEN text \o <<"/">> ELSE text])
    IN  IF \/ colon <= 1
           \/ text[1] \notin Letters
           \/ \E i \in 1..(colon - 1) :
                 text[i] \notin Letters \cup Digits \cup {"+", "-", "."}
        THEN None
        ELSE IF starts_with(rest, <<"/", "/">>) \/ (special /\ scheme # FileScheme)
        THEN LET after == trim_start_matches(rest, <<"/">>)
                 hier == IF scheme = FileScheme \/ ~special
                         THEN DropFirst(rest, 2) ELSE after
                 slash == IndexOf(hier, <<"/">>)
                 authority == IF slash = 0 THEN hier
                              ELSE SubSeq(hier, 1, slash - 1)
                 path == IF slash = 0 THEN <<>> ELSE DropFirst(hier, slash - 1)
                 host == HostOfAuthority(authority)
             IN  IF special /\ scheme # FileScheme /\ host = <<>> THEN None
                 ELSE Url(IF host = <<>> THEN None ELSE Some(host),
                          IF special /\ path = <<>> THEN <<"/">> ELSE path,
                          TRUE)
        ELSE IF starts_with(rest, <<"/">>) THEN Url(None, rest, TRUE)
        ELSE Url(None, rest, FALSE)

\* Url::path_segments: None for a cannot-be-a-base URL, else the path
\* without its leading '/' split at '/'.
path_segments(url) ==
    IF url.cannot_be_a_base \/ ~starts_with(url.path, <<"/">>) THEN None
    ELSE Some(str_split(Tail(url.path), "/"))

\* Url::domain: the host when it is a domain name, None for no host and for
\* an IP address.
domain(url) ==
    IF IsSome(url.host)
          /\ ~(url.scheme \in SpecialSchemes /\ IsIpv4(Unwrap(url.host)))
    THEN url.host ELSE None

\* .take(2).collect()
take(s, n) == IF Len(s) <= n THEN s ELSE SubSeq(s, 1, n)

\* if let Some(idx) = repo.rfind(".git") { repo = &repo[..idx]; }
repo_name(repo) ==
    LET idx == rfind(repo, DotGit)
    IN  IF idx # 0 THEN SubSeq(repo, 1, idx - 1) ELSE repo

\* The hosts, and the paths after the host, of the repository URLs drawn.
Hosts == {GitHubCom, Www \o GitHubCom, GitlabCom, Www \o GitlabCom, <<"x", ".", "i", "o">>}

RepoPaths ==
    {<<>>, <<"a">>, <<"a", "/", "w">>,
     <<"a", "/", "w", ".", "g", "i", "t">>,
     <<"a", "/", "w", ".", "g", "i", "t", "h", "u", "b", ".", "i", "o">>,
     <<"a", "/", "w", "/", "t">>,
     <<"a", "c", "m", "e", "/", "w", "i", "d", "g", "e", "t", "s", ".", "g", "i", "t">>}

HttpsUrl(host, path) ==
    Https \o host \o (IF path = <<>> THEN <<>> ELSE <<"/">> \o path)

SshAddress(host, path) == GitAt \o host \o <<":">> \o path

\* Text that is no URL, a URL without a hierarchical path, one without a
\* host, and one whose host is an address.
OddRepositories ==
    {<<>>, <<"a", "/", "w">>,
     <<"m", "a", "i", "l", "t", "o", ":", "a", "@", "x", ".", "i", "o">>,
     <<"f", "i", "l", "e", ":", "/", "/", "/", "a", "/", "w", ".", "g", "i", "t">>,
     <<"h", "t", "t", "p", "s", ":", "/", "/", "1", ".", "2", ".", "3", ".", "4", "/", "a", "/", "w">>}

Repositories ==
    {HttpsUrl(host, path) : host \in Hosts, path \in RepoPaths}
        \cup {SshAddress(host, path) : host \in Hosts, path \in RepoPaths}
        \cup OddRepositories

\* GITHUB_BASE_URL and GITLAB_BASE_URL: each set to a base URL, or not set.
GitHubOverride == Https \o <<"g", "h", "e", ".", "x", ".", "i", "o">>
GitlabOverride == Https \o <<"g", "l", "e", ".", "x", ".", "i", "o">>

Environments ==
    [GITHUB_BASE_URL : {None, Some(GitHubOverride)},
     GITLAB_BASE_URL : {None, Some(GitlabOverride)}]

\* A probe's outcome: the status is a success, it is not, or the request
\* failed in transport.
ProbeOutcomes == {"Ok(true)", "Ok(false)", "Err"}

\* A bug that would let the later probe decide when both succeed.
probe_match_gitlab_first(github, gitlab) ==
    IF gitlab = "Ok(true)" THEN Some("Gitlab")
    ELSE IF github = "Ok(true)" THEN Some("GitHub")
    ELSE None

\* match (verify_github(..), verify_gitlab(..)): the kind, None for the `_`
\* arm.
probe_match(github, gitlab) ==
    IF github = "Ok(true)" THEN Some("GitHub")
    ELSE IF gitlab = "Ok(true)" THEN Some("Gitlab")
    ELSE None

Scm(kind, base_url, owner, repo) ==
    [tag |-> "Ok", kind |-> kind, base_url |-> base_url,
     owner |-> owner, repo |-> repo]

UnknownProvider(text) == [tag |-> "Err", url |-> text]

\* `.expect(..)` on None: the thread panics.
Panic == [tag |-> "panic"]

\* The chain of lines 107-123: the kind and base URL when a public host or an
\* override decides, None when it is left to probing.
resolve_without_probe(hostname, env) ==
    IF hostname = GitHubCom \/ hostname = Www \o GitHubCom
    THEN Some([kind |-> "GitHub", base_url |-> Https \o Api \o GitHubCom])
    ELSE IF hostname = GitlabCom \/ hostname = Www \o GitlabCom
    THEN Some([kind |-> "Gitlab", base_url |-> Https \o GitlabCom])
    ELSE IF IsSome(env.GITHUB_BASE_URL)
    THEN Some([kind |-> "GitHub", base_url |-> Unwrap(env.GITHUB_BASE_URL)])
    ELSE IF IsSome(env.GITLAB_BASE_URL)
    THEN Some([kind |-> "GitHub", base_url |-> Unwrap(env.GITLAB_BASE_URL)])
    ELSE None

WhatGitStart(repository, env) ==
    [op |-> "what_git", repository |-> repository, env |-> env,
     pc |-> "what_git", url |-> <<>>,
     owner |-> <<>>, repo |-> <<>>, hostname |-> <<>>,
     github |-> "none", probes |-> <<>>, ret |-> None]

\* what_git and metadata_for_url up to the probes: the text is scrubbed and
\* parsed, owner, repo and host are taken from the URL, and a public host or
\* an override decides; else the probes are next.
WhatGit ==
    /\ call.op = "what_git"
    /\ call.pc = "what_git"
    /\ LET url_str == scrub_git_url_if_needed(call.repository)
           parsed == UrlParse(url_str)
           url == Unwrap(parsed)
           segments == path_segments(url)
           path_components == take(Unwrap(segments), 2)
           hostname == domain(url)
           resolved == resolve_without_probe(Unwrap(hostname), call.env)
           Done(ret) == [call EXCEPT !.pc = "done", !.ret = Some(ret)]
       IN  call' =
             IF parsed = None THEN Done(UnknownProvider(url_str))
             ELSE IF segments = None THEN Done(Panic)
             ELSE IF Len(path_components) # 2
             THEN Done(UnknownProvider(url.text))
             ELSE IF hostname = None THEN Done(UnknownProvider(url.text))
             ELSE LET found ==
                          [call EXCEPT !.url = url.text,
                                       !.owner = path_components[1],
                                       !.repo = repo_name(path_components[2]),
                                       !.hostname = Unwrap(hostname)]
                  IN  IF IsSome(resolved)
                      THEN [found EXCEPT
                               !.pc = "done",
                               !.ret = Some(Scm(Unwrap(resolved).kind,
                                                Unwrap(resolved).base_url,
                                                found.owner, found.repo))]
                      ELSE [found EXCEPT !.pc = "verify_github"]
    /\ UNCHANGED <<gl, gh, wfVars>>

\* The first element of the matched tuple: the GET of {base}/zen.
VerifyGithub ==
    /\ call.op = "what_git"
    /\ call.pc = "verify_github"
    /\ \E outcome \in ProbeOutcomes :
         call' = [call EXCEPT
                     !.pc = "verify_gitlab",
                     !.github = outcome,
                     !.probes = Append(@, [probe |-> "verify_github",
                                           base_url |-> Https \o call.hostname,
                                           outcome |-> outcome])]
    /\ UNCHANGED <<gl, gh, wfVars>>

\* The second element, evaluated whatever the first gave: the GET of
\* {base}/api/v4/version; then the match.
VerifyGitlab ==
    /\ call.op = "what_git"
    /\ call.pc = "verify_gitlab"
    /\ \E outcome \in ProbeOutcomes :
         LET kind == probe_match(call.github, outcome)
         IN  call' = [call EXCEPT
                         !.pc = "done",
                         !.probes = Append(@, [probe |-> "verify_gitlab",
                                               base_url |-> Https \o call.hostname,
                                               outcome |-> outcome]),
                         !.ret = Some(IF IsSome(kind)
                                      THEN Scm(Unwrap(kind),
                                               Https \o call.hostname,
                                               call.owner, call.repo)
                                      ELSE UnknownProvider(call.url))]
    /\ UNCHANGED <<gl, gh, wfVars>>

InitWhatGit ==
    /\ gl = GitlabIdle
    /\ gh = GitHubIdle
    /\ WorkflowIdle
    /\ \E repository \in Repositories, env \in Environments :
         call = WhatGitStart(repository, env)

NextWhatGit == WhatGit \/ VerifyGithub \/ VerifyGitlab

SpecWhatGit == InitWhatGit /\ [][NextWhatGit]_vars

----------------------------------------------------------------------------
(* Pure functions applied on their own                                     *)

NameAlphabet == {"o", "/", "f"}
RemoteNames == {<<"o">>}

\* What git accepts as a reference name, as far as this alphabet goes: no
\* empty name, no leading or trailing slash, no empty component.
ValidRefName(s) ==
    /\ s # <<>>
    /\ Head(s) # "/"
    /\ s[Len(s)] # "/"
    /\ \A i \in 1..(Len(s) - 1) : ~(s[i] = "/" /\ s[i + 1] = "/")

RefNames == {s \in StringsUpTo(NameAlphabet, MaxLen) : ValidRefName(s)}

\* Addresses with a second ':', with a second "git@", with nothing after the
\* "git@", and with a "git@" that does not lead.
OddAddresses ==
    {<<"g", "i", "t", "@", "x", ".", "i", "o", ":", "a", ":", "w">>, <<"g", "i", "t", "@", "g", "i", "t", "@", "x", ":", "a">>, <<"g", "i", "t", "@">>, <<"g", "i", "t", "@", "x", ".", "i", "o">>, <<"x", ":", "g", "i", "t", "@", "y", ":", "a">>}

ScrubInputs == Repositories \cup OddAddresses

InitFn ==
    /\ gl = GitlabIdle
    /\ gh = GitHubIdle
    /\ WorkflowIdle
    /\ \/ \E b \in RefNames, r \in RemoteNames :
            call = [op |-> "removing_remote_from_tracking_branch",
                    branch_name |-> b, remote_name |-> r, ret |-> None]
       \/ \E repository \in ScrubInputs :
            call = [op |-> "scrub_git_url_if_needed",
                    repository |-> repository, ret |-> None, again |-> None]

CallRemovingRemote ==
    /\ call.op = "removing_remote_from_tracking_branch"
    /\ call.ret = None
    /\ call' = [call EXCEPT !.ret =
                   Some(removing_remote_from_tracking_branch(call.branch_name,
                                                             call.remote_name))]
    /\ UNCHANGED <<gl, gh, wfVars>>

CallScrub ==
    /\ call.op = "scrub_git_url_if_needed"
    /\ call.ret = None
    /\ call' = [call EXCEPT !.ret =
                   Some(scrub_git_url_if_needed(call.repository))]
    /\ UNCHANGED <<gl, gh, wfVars>>

\* The function applied to its own result.
CallScrubAgain ==
    /\ call.op = "scrub_git_url_if_needed"
    /\ IsSome(call.ret)
    /\ call.again = None
    /\ call' = [call EXCEPT !.again =
                   Some(scrub_git_url_if_needed(Unwrap(call.ret)))]
    /\ UNCHANGED <<gl, gh, wfVars>>

NextFn == CallRemovingRemote \/ CallScrub \/ CallScrubAgain

SpecFn == InitFn /\ [][NextFn]_vars

----------------------------------------------------------------------------
(* Claims                                                                  *)

----------------------------------------------------------------------------
(* services/github/mod.rs, services/gitlab/mod.rs: construct_base_url      *)

\* Longest owner and repo name a client is built with.
MaxNameLen == 2

\* A letter, and characters of PATH_SEGMENT_ENCODE_SET.
PathCharacters == {"a", "/", "?", "#", "%", " "}

\* PATH_SEGMENT_ENCODE_SET, as far as these characters go, with the escape
\* utf8_percent_encode writes for each.
PATH_SEGMENT_ENCODE_SET ==
    ("/" :> <<"%", "2", "F">>) @@ ("?" :> <<"%", "3", "F">>)
        @@ ("#" :> <<"%", "2", "3">>) @@ ("%" :> <<"%", "2", "5">>)
        @@ (" " :> <<"%", "2", "0">>)

utf8_percent_encode(text) ==
    LET Encoded(c) == IF c \in DOMAIN PATH_SEGMENT_ENCODE_SET
                      THEN PATH_SEGMENT_ENCODE_SET[c] ELSE <<c>>
    IN  ConcatAll(MapSeq(Encoded, text))

\* GitHub::construct_base_url: format!("{}/repos/{}/{}", ..)
GitHub_construct_base_url(base_url, owner, repo) ==
    base_url \o <<"/", "r", "e", "p", "o", "s", "/">> \o owner \o <<"/">> \o repo

\* Gitlab::construct_base_url: the namespace "{owner}/{repo}" encoded.
Gitlab_construct_base_url(base_url, owner, repo) ==
    LET namespace == owner \o <<"/">> \o repo
    IN  base_url \o <<"/", "a", "p", "i", "/", "v", "4", "/", "p", "r", "o", "j", "e", "c", "t", "s", "/">>
            \o utf8_percent_encode(namespace)

ProjectNames == StringsUpTo(PathCharacters, MaxNameLen) \ {<<>>}

InitBaseUrl ==
    /\ gl = GitlabIdle
    /\ gh = GitHubIdle
    /\ WorkflowIdle
    /\ \E kind \in ProviderKinds, owner \in ProjectNames, repo \in ProjectNames :
        call = [op |-> "construct_base_url", kind |-> kind,
                base_url |-> IF kind = "GitHub" THEN Https \o Api \o GitHubCom
                             ELSE Https \o GitlabCom,
                owner |-> owner, repo |-> repo, ret |-> None]

GitHubConstructBaseUrl ==
    /\ call.op = "construct_base_url"
    /\ call.kind = "GitHub"
    /\ call.ret = None
    /\ call' = [call EXCEPT !.ret =
                   Some(GitHub_construct_base_url(call.base_url, call.owner,
                                                  call.repo))]
    /\ UNCHANGED <<gl, gh, wfVars>>

GitlabConstructBaseUrl ==
    /\ call.op = "construct_base_url"
    /\ call.kind = "Gitlab"
    /\ call.ret = None
    /\ call' = [call EXCEPT !.ret =
                   Some(Gitlab_construct_base_url(call.base_url, call.owner,
                                                  call.repo))]
    /\ UNCHANGED <<gl, gh, wfVars>>

NextBaseUrl == GitHubConstructBaseUrl \/ GitlabConstructBaseUrl

SpecBaseUrl == InitBaseUrl /\ [][NextBaseUrl]_vars

----------------------------------------------------------------------------
(* actions/report.rs: the report workflow                                  *)

\* report_for_branch: None when the name, the commit or a part of the item
\* cannot be read; the flag is whether the list holds the branch's name.
report_for_branch(branch, push_request_branches) ==
    IF IsSome(branch.name) /\ IsSome(branch.time)
    THEN Some([branch |-> Unwrap(branch.name),
               last_updated |-> Unwrap(branch.time),
               has_push_request |->
                   \E i \in 1..Len(push_request_branches) :
                       push_request_branches[i] = Unwrap(branch.name)])
    ELSE None

\* report_for_remote: the items of every remote branch of the repository
\* that is Ok and has an item.
report_for_remote(all_branches, remote_name, push_requests) ==
    LET Readable(branch) == branch.ok
        branches == SelectSeq(all_branches, Readable)
        SourceBranch(pr) == pr.source_branch
        source_branches == MapSeq(SourceBranch, push_requests)
        HasItem(branch) == IsSome(report_for_branch(branch, source_branches))
        Item(branch) == Unwrap(report_for_branch(branch, source_branches))
    IN  [remote_name |-> remote_name,
         items |-> MapSeq(Item, SelectSeq(branches, HasItem))]

\* The repository reported on, and the push requests open on the provider
\* of its remotes.
InitReport ==
    /\ gl = GitlabIdle
    /\ gh = GitHubIdle
    /\ WorkflowIdle
    /\ \E remotes \in RepoRemotes, all_branches \in BranchLists,
          open \in OpenForBranches :
        call = [op |-> "report", pc |-> "for_remote", remotes |-> remotes,
                all_branches |-> all_branches, open |-> open,
                push_requests |-> <<>>, reports |-> <<>>,
                result |-> "running"]

\* find_remote, fetch_refs or report_for_remote fails.
ReportFails ==
    /\ call.op = "report"
    /\ call.pc = "for_remote"
    /\ call.remotes # <<>>
    /\ call' = [call EXCEPT !.pc = "done", !.result = "err"]
    /\ UNCHANGED <<gl, gh, wfVars>>

\* One turn of the loop: the report of the next remote.
ReportForRemote ==
    /\ call.op = "report"
    /\ call.pc = "for_remote"
    /\ call.remotes # <<>>
    /\ call' = [call EXCEPT
                   !.remotes = Tail(@),
                   !.reports = Append(@,
                       report_for_remote(call.all_branches, Head(call.remotes),
                                         call.push_requests))]
    /\ UNCHANGED <<gl, gh, wfVars>>

\* The reports are printed.
ReportDone ==
    /\ call.op = "report"
    /\ call.pc = "for_remote"
    /\ call.remotes = <<>>
    /\ call' = [call EXCEPT !.pc = "done", !.result = "ok"]
    /\ UNCHANGED <<gl, gh, wfVars>>

NextReport == ReportFails \/ ReportForRemote \/ ReportDone

SpecReport == InitReport /\ [][NextReport]_vars

----------------------------------------------------------------------------
(* The two selections applied to a fetched snapshot, once and again        *)

\* What list_push_requests can hand to either workflow.
ReturnedListings(opens) ==
    UNION {{listing.returned : listing \in Listings(kind, opens)} :
              kind \in ProviderKinds}

InitEligibility ==
    /\ gl = GitlabIdle
    /\ gh = GitHubIdle
    /\ WorkflowIdle
    /\ \/ \E since_date \in SinceDates, all_branches \in BranchLists,
             names \in ProtectedNames,
             all_push_requests \in ReturnedListings(OpenForBranches) :
            call = [op |-> "branches_to_delete",
                    remote_name |-> <<"o">>,
                    current_remote_branch |-> [ref |-> CurrentRef],
                    since_date |-> since_date,
                    all_push_requests |-> all_push_requests,
                    all_protected_branches |-> list_protected_branches(names),
                    all_branches |-> all_branches,
                    first |-> None, second |-> None]
       \/ \E since_date \in SinceDates,
             all_push_requests \in ReturnedListings(OpenForClosing(MaxPulls)) :
            call = [op |-> "eligible_push_requests",
                    since_date |-> since_date,
                    all_push_requests |-> all_push_requests,
                    first |-> None, second |-> None]

\* The filter of clean_branches_on_remote over the snapshot.
SelectedBranches(since_date) ==
    BranchesToDelete(call.remote_name, call.current_remote_branch, since_date,
                     call.all_push_requests, call.all_protected_branches,
                     call.all_branches)

SelectBranches ==
    /\ call.op = "branches_to_delete"
    /\ call.first = None
    /\ call' = [call EXCEPT !.first = Some(SelectedBranches(call.since_date))]
    /\ UNCHANGED <<gl, gh, wfVars>>

\* A second run whose cutoff had moved on with the clock.
SelectBranchesAgainLater ==
    /\ call.op = "branches_to_delete"
    /\ IsSome(call.first)
    /\ call.second = None
    /\ call' = [call EXCEPT
                   !.second = Some(SelectedBranches(call.since_date + 1))]
    /\ UNCHANGED <<gl, gh, wfVars>>

SelectBranchesAgain ==
    /\ call.op = "branches_to_delete"
    /\ IsSome(call.first)
    /\ call.second = None
    /\ call' = [call EXCEPT !.second = Some(SelectedBranches(call.since_date))]
    /\ UNCHANGED <<gl, gh, wfVars>>

SelectPushRequests ==
    /\ call.op = "eligible_push_requests"
    /\ call.first = None
    /\ call' = [call EXCEPT !.first =
                   Some(eligible_push_requests(call.all_push_requests,
                                               call.since_date))]
    /\ UNCHANGED <<gl, gh, wfVars>>

SelectPushRequestsAgain ==
    /\ call.op = "eligible_push_requests"
    /\ IsSome(call.first)
    /\ call.second = None
    /\ call' = [call EXCEPT !.second =
                   Some(eligible_push_requests(call.all_push_requests,
                                               call.since_date))]
    /\ UNCHANGED <<gl, gh, wfVars>>

NextEligibility ==
    \/ SelectBranches
    \/ SelectBranchesAgain
    \/ SelectPushRequests
    \/ SelectPushRequestsAgain

SpecEligibility == InitEligibility /\ [][NextEligibility]_vars

----------------------------------------------------------------------------
(* The claims                                                              *)

\* C3: removing_remote_from_tracking_branch(b, r) removes one literal leading
\* "r/" and nothing else: the result is b without that prefix when b starts
\* with "r/", and b itself otherwise.
C3_RemovesOnlyLeadingPrefix ==
    (call.op = "removing_remote_from_tracking_branch" /\ IsSome(call.ret))
        => Unwrap(call.ret) =
               StripLeadingRemote(call.branch_name, call.remote_name)

\* The run has selected and printed the branches to delete on a remote.
BranchesPrinted ==
    \E i \in 1..Len(out) : out[i].ev = "print_branches_to_delete"

InSeq(x, s) == \E i \in 1..Len(s) : s[i] = x

\* A branch whose item, name and commit time could all be read.
Complete(branch) == branch.ok /\ IsSome(branch.name) /\ IsSome(branch.time)

\* C1: a remote-tracking branch is a deletion candidate if and only if its
\* reference is not the current branch's, its last commit is not after the
\* cutoff, its short name (the name without the leading "{remote}/") is the
\* source branch of no fetched open push request, and its short name matches
\* no fetched protected-branch pattern.
C1_CandidateIffFourConditions ==
    BranchesPrinted =>
        \A i \in 1..Len(locals.all_branches) :
            LET branch == locals.all_branches[i]
                short == StripLeadingRemote(Unwrap(branch.name),
                                            locals.remote_name)
            IN  Complete(branch) =>
                    (InSeq(branch, locals.branches_to_delete) <=>
                        /\ branch.ref # locals.current_remote_branch.ref
                        /\ ~(Unwrap(branch.time) > args.since_date)
                        /\ \A j \in 1..Len(locals.all_push_requests) :
                             locals.all_push_requests[j].source_branch # short
                        /\ \A j \in 1..Len(locals.all_protected_branches) :
                             ~matches_branch(locals.all_protected_branches[j],
                                             short))

MutatingEvents ==
    {"push_to_remote", "push_to_remote_failed",
     "close_push_request", "close_push_request_failed"}

\* C2: a run without --delete issues no push and no close; and in every run
\* a push to a remote comes after the branches to delete on that remote were
\* printed, with their count and the total, and pushes the refspecs of the
\* names printed; a close comes after the push requests to close were
\* printed, and closes one of the ids printed.
C2_NoMutationWithoutOptInAndPrintFirst ==
    /\ ~args.should_delete =>
           \A i \in 1..Len(out) : out[i].ev \notin MutatingEvents
    /\ \A i \in 1..Len(out) :
         /\ out[i].ev \in {"push_to_remote", "push_to_remote_failed"} =>
                \E j \in 1..(i - 1) :
                    /\ out[j].ev = "print_branches_to_delete"
                    /\ out[j].remote = out[i].remote
                    /\ out[j].count = Len(out[j].items)
                    /\ out[j].total >= out[j].count
                    /\ Len(out[i].items) = Len(out[j].items)
                    /\ \A n \in 1..Len(out[i].items) :
                         ends_with(out[j].items[n],
                                   DropFirst(out[i].items[n], 13))
         /\ out[i].ev \in {"close_push_request", "close_push_request_failed"} =>
                \E j \in 1..(i - 1) :
                    /\ out[j].ev = "print_push_requests_to_close"
                    /\ out[j].count = Len(out[j].items)
                    /\ out[j].total >= out[j].count
                    /\ InSeq(out[i].items[1], out[j].items)

\* A run with --delete has printed one branch and pushed its deletion.
C2_Witness ==
    /\ args.should_delete
    /\ result = "ok"
    /\ \E i \in 1..Len(out) :
         out[i].ev = "push_to_remote" /\ Len(out[i].items) = 1

\* C4: with the other three conditions of eligibility met, a branch whose
\* last commit time is t is a deletion candidate for the cutoff d if and only
\* if t <= d; a commit made exactly at the cutoff does not count as an update.
C4_StaleIffNotAfterCutoff ==
    BranchesPrinted =>
        \A i \in 1..Len(locals.all_branches) :
            LET branch == locals.all_branches[i]
                short == removing_remote_from_tracking_branch(
                             Unwrap(branch.name), locals.remote_name)
            IN  (/\ Complete(branch)
                 /\ branch.ref # locals.current_remote_branch.ref
                 /\ \A j \in 1..Len(locals.all_push_requests) :
                      locals.all_push_requests[j].source_branch # short
                 /\ \A j \in 1..Len(locals.all_protected_branches) :
                      ~matches_branch(locals.all_protected_branches[j], short))
                => (InSeq(branch, locals.branches_to_delete) <=>
                        Unwrap(branch.time) <= args.since_date)

\* A branch last committed to exactly at the cutoff was selected.
C4_Witness ==
    /\ BranchesPrinted
    /\ \E i \in 1..Len(locals.branches_to_delete) :
         locals.branches_to_delete[i].time = Some(args.since_date)

\* C5: a branch whose item could not be read, whose name could not be
\* decoded or whose last commit time could not be determined is never among
\* the branches to delete.
C5_MissingDataNeverCandidate ==
    BranchesPrinted =>
        \A i \in 1..Len(locals.all_branches) :
            ~Complete(locals.all_branches[i]) =>
                ~InSeq(locals.all_branches[i], locals.branches_to_delete)

\* With no push request and no protected branch to exclude anything, the
\* repository held a branch that is not current and has no commit time, and a
\* branch without a decodable name.
C5_Witness ==
    /\ BranchesPrinted
    /\ locals.all_push_requests = <<>>
    /\ locals.all_protected_branches = <<>>
    /\ InSeq(UndecodableBranch, locals.all_branches)
    /\ \E i \in 1..Len(locals.all_branches) :
         /\ locals.all_branches[i].ok
         /\ IsSome(locals.all_branches[i].name)
         /\ locals.all_branches[i].time = None
         /\ locals.all_branches[i].ref # locals.current_remote_branch.ref

\* The source branches of the push requests the provider's responses
\* carried: GitHub's head.ref, GitLab's source_branch.
ListedSourceBranches ==
    {IF provider.kind = "GitHub" THEN provider.listed[i].head.git_ref
     ELSE provider.listed[i].source_branch : i \in 1..Len(provider.listed)}

\* C6: with either provider, when a listed open push request has source
\* branch B, the remote-tracking branch "{remote}/B" is not among the
\* branches to delete.
C6_BranchOfOpenPushRequestKept ==
    (BranchesPrinted /\ provider.kind \in ProviderKinds) =>
        \A B \in ListedSourceBranches :
            \A i \in 1..Len(locals.branches_to_delete) :
                locals.branches_to_delete[i].name #
                    Some(locals.remote_name \o <<"/">> \o B)

\* The run has selected and printed the push requests to close.
PushRequestsPrinted ==
    \E i \in 1..Len(out) : out[i].ev = "print_push_requests_to_close"

\* C7: a listed push request is among the ones to close if and only if its
\* source project is its target project and it was last updated strictly
\* before the cutoff.
C7_CloseIffSameProjectAndBeforeCutoff ==
    PushRequestsPrinted =>
        \A i \in 1..Len(locals.all_push_requests) :
            LET pr == locals.all_push_requests[i]
            IN  InSeq(pr, locals.eligible_push_requests) <=>
                    /\ pr.source_project = pr.target_project
                    /\ pr.updated_at < args.since_date

\* Of two listed push requests of the repository itself, the one updated
\* before the cutoff was selected and the one updated at the cutoff was not.
C7_Witness ==
    /\ PushRequestsPrinted
    /\ \E i, j \in 1..Len(locals.all_push_requests) :
         LET pr == locals.all_push_requests[i]
             at_cutoff == locals.all_push_requests[j]
         IN  /\ InSeq(pr, locals.eligible_push_requests)
             /\ at_cutoff.source_project = at_cutoff.target_project
             /\ at_cutoff.updated_at = args.since_date
             /\ ~InSeq(at_cutoff, locals.eligible_push_requests)

\* "+"-signed or plain decimal text: what reads as a non-negative integer.
IsNonNegativeInteger(text) ==
    LET body == IF text # <<>> /\ text[1] = "+" THEN Tail(text) ELSE text
    IN  Len(body) >= 1 /\ {body[i] : i \in 1..Len(body)} \subseteq Digits

HeaderUnusable(headers, key) ==
    headers[key] = Absent \/ ~IsNonNegativeInteger(Unwrap(headers[key]))

PaginationHeaders == {"x-page", "x-total", "x-total-pages"}

HeaderNumber(headers, key) ==
    LET text == Unwrap(headers[key])
    IN  DecimalValue(IF text[1] = "+" THEN Tail(text) ELSE text)

\* The items of the responses received, converted, in the order received.
GitlabReceived(requests) ==
    ConcatAll([i \in 1..Len(requests) |->
                 IF IsSome(requests[i].response)
                 THEN MapSeq(PushRequestFromMergeRequest,
                             Unwrap(requests[i].response))
                 ELSE <<>>])

\* C9: when x-page, x-total or x-total-pages of the HEAD response is absent
\* or is not a non-negative integer, list_push_requests sends no page GET and
\* returns Ok with an empty listing.
C9_MissingHeaderGivesEmptyListing ==
    (gl.pc # "idle" /\ IsSome(gl.headers)
        /\ \E key \in PaginationHeaders :
               HeaderUnusable(Unwrap(gl.headers), key))
        => /\ gl.requests = <<>>
           /\ gl.pc = "done"
           /\ gl.result = "ok"
           /\ gl.items = <<>>

C9_Witness ==
    /\ gl.pc = "done"
    /\ IsSome(gl.headers)
    /\ Unwrap(gl.headers)["x-total-pages"] = Absent
    /\ Unwrap(gl.headers)["x-page"] = Some(<<"1">>)
    /\ Unwrap(gl.headers)["x-total"] = Some(<<"4">>)
    /\ gl.result = "ok"

\* C10: with all three headers usable, the page GETs sent are those for
\* current, current + 1, ... in ascending order, one each, none beyond
\* total_pages; a listing that returns Ok has requested every page up to
\* total_pages and holds the pages' items concatenated in that order; and
\* when current > total_pages nothing is requested and the listing is empty.
C10_OneRequestPerPageInOrder ==
    (gl.pc # "idle" /\ IsSome(gl.headers)
        /\ \A key \in PaginationHeaders :
               ~HeaderUnusable(Unwrap(gl.headers), key))
        => LET current == HeaderNumber(Unwrap(gl.headers), "x-page")
               total_pages == HeaderNumber(Unwrap(gl.headers), "x-total-pages")
               wanted == IF current > total_pages THEN 0
                         ELSE total_pages - current + 1
           IN  /\ Len(gl.requests) <= wanted
               /\ \A i \in 1..Len(gl.requests) :
                      /\ gl.requests[i].page = current + i - 1
                      /\ i < Len(gl.requests) => IsSome(gl.requests[i].response)
               /\ (gl.pc = "done" /\ gl.result = "ok")
                      => /\ Len(gl.requests) = wanted
                         /\ gl.items = GitlabReceived(gl.requests)
                         /\ \A i \in 1..wanted : IsSome(gl.requests[i].response)
               /\ gl.pc = "done" => (gl.result = "ok" \/ gl.items = <<>>)
               /\ current > total_pages
                      => gl.pc = "done" /\ gl.result = "ok" /\ gl.items = <<>>
               /\ (gl.pc # "done") => Len(gl.requests) < wanted

C10_Witness ==
    /\ gl.pc = "done"
    /\ gl.result = "ok"
    /\ Len(gl.requests) = 3
    /\ gl.requests[1].page = 1
    /\ gl.requests[3].page = 3
    /\ Len(gl.items) = 3 * MaxPageItems

\* The items of the responses received, converted, in the order received.
GitHubReceived(requests) ==
    ConcatAll([i \in 1..Len(requests) |->
                 IF IsSome(requests[i].response)
                 THEN FilterMapOk(PushRequestFromPullRequest,
                                  Unwrap(requests[i].response))
                 ELSE <<>>])

\* C8: paginated_request asks for the pages of the chain in chain order, each
\* once, the URI of each taken from the rel="next" entry of the page before;
\* when it returns Ok it has asked for all k pages and its result is the
\* pages' items concatenated in arrival order, within-page order kept.
C8_PagesConcatenatedInArrivalOrder ==
    gh.pc # "idle"
        => /\ Len(gh.requests) <= gh.k
           /\ \A i \in 1..Len(gh.requests) : gh.requests[i].uri = PageUri(i)
           /\ (gh.pc = "done" /\ gh.result = "ok")
                  => /\ Len(gh.requests) = gh.k
                     /\ \A i \in 1..gh.k : IsSome(gh.requests[i].response)
                     /\ gh.items = GitHubReceived(gh.requests)
                     /\ Len(gh.items) =
                            Len(ConcatAll([i \in 1..gh.k |->
                                    Unwrap(gh.requests[i].response)]))

C8_Witness ==
    /\ gh.pc = "done"
    /\ gh.result = "ok"
    /\ gh.k = 3
    /\ gh.style = "github"
    /\ Len(gh.requests) = 3
    /\ Len(gh.items) = 3 * MaxPageItems
    /\ gh.items[1].id = 11
    /\ gh.items[Len(gh.items)].id = 30 + MaxPageItems

\* A request of the listing got no response.
GitHubRequestFailed == \E i \in 1..Len(gh.requests) : gh.requests[i].response = None

GitlabRequestFailed ==
    \/ \E i \in 1..Len(gl.requests) : gl.requests[i].response = None
    \/ gl.pc = "done" /\ gl.headers = None /\ gl.requests = <<>>

\* C11: with either client, once a request of a listing has failed, for the
\* first page or a later one, the listing is over, its result is the error
\* and no items are returned, whatever pages had arrived before; and a
\* listing that returns Ok has had a response to every request it sent.
C11_FailedRequestFailsListing ==
    /\ (gh.pc # "idle" /\ GitHubRequestFailed)
           => gh.pc = "done" /\ gh.result = "err" /\ gh.items = <<>>
    /\ (gh.pc = "done" /\ gh.result = "ok") => ~GitHubRequestFailed
    /\ (gl.pc # "idle" /\ GitlabRequestFailed)
           => gl.pc = "done" /\ gl.result = "err" /\ gl.items = <<>>
    /\ (gl.pc = "done" /\ gl.result = "ok") => ~GitlabRequestFailed

\* Two pages with items arrived from GitHub and the request for the third
\* failed.
C11_Witness ==
    /\ gh.pc = "done"
    /\ gh.result = "err"
    /\ Len(gh.requests) = 3
    /\ Len(Unwrap(gh.requests[1].response)) = MaxPageItems
    /\ Len(Unwrap(gh.requests[2].response)) = MaxPageItems
    /\ gh.requests[3].response = None

\* A name that compiles as a glob pattern.
IsGlob(name) == \A i \in 1..Len(name) : name[i] # "["

AsProtectedBranch(name) == [pattern |-> name]

\* The names the responses carried, in the order received.
NamesReceived(requests) ==
    ConcatAll([i \in 1..Len(requests) |->
                 IF IsSome(requests[i].response)
                 THEN Unwrap(requests[i].response) ELSE <<>>])

\* C12: a listing of protected branches that got a response to every
\* request returns Ok, and its result holds, in the order received, one
\* protected branch for every name received that is a glob pattern, over all
\* pages; the names that are no pattern are left out and nothing else is.
C12_OnlyFailedRecordDropped ==
    /\ (gh.pc = "done" /\ gh.intermediate = "ProtectedBranch"
            /\ ~GitHubRequestFailed)
           => /\ gh.result = "ok"
              /\ gh.items = MapSeq(AsProtectedBranch,
                                   SelectSeq(NamesReceived(gh.requests), IsGlob))
    /\ (gl.pc = "done" /\ gl.requests # <<>> /\ gl.requests[1].page = 0
            /\ ~GitlabRequestFailed)
           => /\ gl.result = "ok"
              /\ gl.items = MapSeq(AsProtectedBranch,
                                   SelectSeq(NamesReceived(gl.requests), IsGlob))

\* GitHub listed two pages of protected branches; on the first page the
\* first name was no pattern and the second was, and the listing holds the
\* second name first and every name of the second page after it.
C12_Witness ==
    /\ gh.pc = "done"
    /\ gh.result = "ok"
    /\ gh.intermediate = "ProtectedBranch"
    /\ Len(gh.requests) = 2
    /\ Unwrap(gh.requests[1].response) = <<<<"[", "1", "1">>, <<"b", "1", "2">>>>
    /\ Len(Unwrap(gh.requests[2].response)) = 2
    /\ Len(gh.items) = 3
    /\ gh.items[1] = AsProtectedBranch(<<"b", "1", "2">>)

\* Detection has returned, or panicked.
WhatGitDone == call.op = "what_git" /\ call.pc = "done"

\* The host, once detection has got as far as the rules that need it.
HostKnown == call.op = "what_git" /\ call.hostname # <<>>

\* The rule of the specification's list that applies first.
FirstApplicableRule(hostname, env) ==
    IF hostname \in {GitHubCom, Www \o GitHubCom} THEN "public GitHub"
    ELSE IF hostname \in {GitlabCom, Www \o GitlabCom} THEN "public GitLab"
    ELSE IF IsSome(env.GITHUB_BASE_URL) THEN "GitHub override"
    ELSE IF IsSome(env.GITLAB_BASE_URL) THEN "GitLab override"
    ELSE "probing"

\* C13: the kind and base URL of the descriptor are those of the first rule
\* that applies, in the order public GitHub host, public GitLab host, GitHub
\* override, GitLab override, probing: a public host decides whatever the
\* overrides, the GitHub override decides before the GitLab override; and
\* git@github.com:acme/widgets.git gives GitHub, owner acme, repo widgets.
C13_FirstApplicableRuleDecides ==
    /\ (WhatGitDone /\ HostKnown /\ call.probes = <<>>) =>
           LET rule == FirstApplicableRule(call.hostname, call.env)
               ret == Unwrap(call.ret)
           IN  /\ ret.tag = "Ok"
               /\ rule = "public GitHub" =>
                      /\ ret.kind = "GitHub"
                      /\ ret.base_url = Https \o Api \o GitHubCom
               /\ rule = "public GitLab" =>
                      /\ ret.kind = "Gitlab"
                      /\ ret.base_url = Https \o GitlabCom
               /\ rule = "GitHub override" =>
                      /\ ret.kind = "GitHub"
                      /\ ret.base_url = Unwrap(call.env.GITHUB_BASE_URL)
               /\ rule = "GitLab override" =>
                      /\ ret.kind = "Gitlab"
                      /\ ret.base_url = Unwrap(call.env.GITLAB_BASE_URL)
               /\ rule # "probing"
    /\ (WhatGitDone /\ call.probes # <<>>) =>
           FirstApplicableRule(call.hostname, call.env) = "probing"
    /\ (WhatGitDone
            /\ call.repository = SshAddress(GitHubCom, <<"a", "c", "m", "e", "/", "w", "i", "d", "g", "e", "t", "s", ".", "g", "i", "t">>))
           => /\ Unwrap(call.ret).tag = "Ok"
              /\ Unwrap(call.ret).kind = "GitHub"
              /\ Unwrap(call.ret).owner = <<"a", "c", "m", "e">>
              /\ Unwrap(call.ret).repo = <<"w", "i", "d", "g", "e", "t", "s">>

\* C14: for a host that is neither public GitHub nor public GitLab, with
\* GITHUB_BASE_URL not set and GITLAB_BASE_URL set, the descriptor has kind
\* GitLab and the value of GITLAB_BASE_URL as its base URL.
C14_GitlabOverrideGivesGitlab ==
    (WhatGitDone /\ HostKnown
        /\ FirstApplicableRule(call.hostname, call.env) = "GitLab override")
        => /\ Unwrap(call.ret).tag = "Ok"
           /\ Unwrap(call.ret).kind = "Gitlab"
           /\ Unwrap(call.ret).base_url = Unwrap(call.env.GITLAB_BASE_URL)

\* What a probe gave, "not issued" when its request was not sent.
ProbeOutcome(probe) ==
    IF \E i \in 1..Len(call.probes) : call.probes[i].probe = probe
    THEN call.probes[CHOOSE i \in 1..Len(call.probes) :
                        call.probes[i].probe = probe].outcome
    ELSE "not issued"

\* C15: when detection comes down to probing, a successful GitHub probe
\* gives kind GitHub, whatever the GitLab probe gives; a successful GitLab
\* probe without a successful GitHub probe gives kind GitLab; with no
\* successful probe, transport failures of both included, detection fails
\* with UnknownProvider; and a descriptor found by probing has the base URL
\* https://{host}.
C15_ProbeOutcomesDecideKind ==
    (WhatGitDone /\ HostKnown
        /\ FirstApplicableRule(call.hostname, call.env) = "probing")
        => LET github == ProbeOutcome("verify_github")
               gitlab == ProbeOutcome("verify_gitlab")
               ret == Unwrap(call.ret)
           IN  /\ github = "Ok(true)" => ret.tag = "Ok" /\ ret.kind = "GitHub"
               /\ (github # "Ok(true)" /\ gitlab = "Ok(true)")
                      => ret.tag = "Ok" /\ ret.kind = "Gitlab"
               /\ (github # "Ok(true)" /\ gitlab # "Ok(true)")
                      => ret.tag = "Err"
               /\ ret.tag = "Ok" => ret.base_url = Https \o call.hostname

\* Both probes succeeded and the descriptor says GitHub.
C15_Witness ==
    /\ WhatGitDone
    /\ ProbeOutcome("verify_github") = "Ok(true)"
    /\ ProbeOutcome("verify_gitlab") = "Ok(true)"
    /\ Unwrap(call.ret).tag = "Ok"
    /\ Unwrap(call.ret).kind = "GitHub"
    /\ Unwrap(call.ret).base_url = Https \o <<"x", ".", "i", "o">>

\* C16: detection sends no probe when the host is a public one or an
\* override is set, and once the GitHub probe has succeeded it sends no
\* GitLab probe.
C16_NoProbeBeyondFirstSuccess ==
    call.op = "what_git" =>
        /\ (HostKnown
                /\ FirstApplicableRule(call.hostname, call.env) # "probing")
               => call.probes = <<>>
        /\ \A i \in 1..Len(call.probes) :
               (call.probes[i].probe = "verify_github"
                    /\ call.probes[i].outcome = "Ok(true)")
                   => \A j \in (i + 1)..Len(call.probes) :
                          call.probes[j].probe # "verify_gitlab"

\* The repo name as the specification defines it: a ".git" at the end of the
\* segment removed, nothing else touched.
strip_git_suffix(repo) ==
    IF ends_with(repo, DotGit) THEN SubSeq(repo, 1, Len(repo) - 4) ELSE repo

\* The second path segment of the repository URL.
SecondSegment(repository) ==
    Unwrap(path_segments(Unwrap(UrlParse(
        scrub_git_url_if_needed(repository)))))[2]

\* C17: the repo of a descriptor is the second path segment without a
\* ".git" at its end: a segment ending in ".git" loses those four
\* characters, any other segment is kept as it is.
C17_OnlyTrailingDotGitRemoved ==
    (WhatGitDone /\ Unwrap(call.ret).tag = "Ok")
        => Unwrap(call.ret).repo =
               strip_git_suffix(SecondSegment(call.repository))

\* C18: detection never panics: it returns a descriptor or UnknownProvider;
\* text that is no URL gives UnknownProvider carrying that text, and so does
\* a URL with fewer than two path segments, one without a hierarchical path
\* and one without a host name.
C18_WhatGitIsTotal ==
    WhatGitDone =>
        LET ret == Unwrap(call.ret)
            parsed == UrlParse(scrub_git_url_if_needed(call.repository))
            segments == path_segments(Unwrap(parsed))
        IN  /\ ret.tag \in {"Ok", "Err"}
            /\ parsed = None
                   => ret = UnknownProvider(call.repository)
            /\ (IsSome(parsed)
                    /\ (segments = None \/ Len(Unwrap(segments)) < 2
                            \/ domain(Unwrap(parsed)) = None))
                   => ret.tag = "Err"

\* The URI form of an address "git@" \o rest: "git://", then rest with its
\* first ':' turned into '/'.
UriForm(rest) ==
    LET colon == IndexOf(rest, <<":">>)
    IN  GitScheme \o
        (IF colon = 0 THEN rest
         ELSE SubSeq(rest, 1, colon - 1) \o <<"/">>
                  \o SubSeq(rest, colon + 1, Len(rest)))

\* C19: scrub_git_url_if_needed turns git@host:owner/repo into
\* git://host/owner/repo, replacing the leading "git@" and the first ':'
\* only; it returns a string that does not start with "git@" as it is; and
\* applied to its own result it changes nothing.
C19_ScrubRewritesSshAddressOnce ==
    call.op = "scrub_git_url_if_needed" =>
        /\ IsSome(call.ret) =>
               Unwrap(call.ret) =
                   IF starts_with(call.repository, GitAt)
                   THEN UriForm(DropFirst(call.repository, 4))
                   ELSE call.repository
        /\ IsSome(call.again) => call.again = call.ret

\* An address with two ':' was rewritten, once and again.
C19_Witness ==
    /\ call.op = "scrub_git_url_if_needed"
    /\ call.repository = <<"g", "i", "t", "@", "x", ".", "i", "o", ":", "a", ":", "w">>
    /\ call.ret = Some(<<"g", "i", "t", ":", "/", "/", "x", ".", "i", "o", "/", "a", ":", "w">>)
    /\ call.again = call.ret

\* What the run does for a remote it has a client for.
RemoteEvents ==
    {"fetch_refs", "list_push_requests", "list_protected_branches",
     "print_branches_to_delete", "push_to_remote", "push_to_remote_failed"}

\* The loop over the remotes has taken up a remote and got no client for it.
RemoteUndetected ==
    /\ args.subcommand = "branches"
    /\ locals.remote_name # <<>>
    /\ provider.kind = "none"

\* C20: in clean_remote_branches a remote whose provider cannot be detected
\* is skipped with a warning and without error: the run neither fails nor
\* panics over it, nothing is fetched, listed or pushed for it, and the loop
\* goes on to the remotes after it.
C20_UndetectedRemoteSkipped ==
    /\ RemoteUndetected =>
           /\ \E i \in 1..Len(out) :
                  /\ out[i].ev = "unsupported_provider"
                  /\ out[i].remote = locals.remote_name
           /\ result \in {"running", "ok"}
           /\ pc \in {"for_remote", "done"}
           /\ pc = "done" => locals.remotes = <<>>
    /\ \A i \in 1..Len(out) :
           out[i].ev = "unsupported_provider" =>
               \A j \in 1..Len(out) :
                   out[j].remote = out[i].remote =>
                       out[j].ev \notin RemoteEvents

ListingFailures == {"list_push_requests_failed", "list_protected_branches_failed"}

\* C21: a provider error while the push requests or the protected branches
\* of a remote are listed ends the run with an error: nothing is pushed to
\* that remote, no later remote is taken up and nothing else happens after
\* the failure; and a listing error in clean_push_requests ends the run with
\* an error before any close call.
C21_ListingErrorAbortsRun ==
    \A i \in 1..Len(out) :
        out[i].ev \in ListingFailures =>
            /\ i = Len(out)
            /\ pc = "done"
            /\ result = "err"
            /\ locals.remote_name = out[i].remote
            /\ \A j \in 1..Len(out) :
                   /\ out[j].ev \notin {"close_push_request",
                                        "close_push_request_failed"}
                   /\ out[j].remote = out[i].remote =>
                          out[j].ev \notin {"push_to_remote",
                                            "push_to_remote_failed"}

\* With --delete, the listing for the first of two remotes failed, and the
\* second remote was never taken up.
C21_Witness ==
    /\ args.subcommand = "branches"
    /\ args.should_delete
    /\ out # <<>>
    /\ out[Len(out)].ev \in ListingFailures
    /\ out[Len(out)].remote = <<"o">>
    /\ locals.remotes = <<<<"u">>>>
    /\ result = "err"

PushEvents == {"push_to_remote", "push_to_remote_failed"}

RefsHeads == <<"+", ":", "r", "e", "f", "s", "/", "h", "e", "a", "d", "s", "/">>

\* C22: with --delete, what is deleted on a remote is deleted by one push:
\* the push follows the printed selection, carries one refspec
\* "+:refs/heads/{short name}" for each branch printed, in that order, is
\* issued with no refspec when nothing was selected, and is the only push
\* to that remote.
C22_OnePushOfAllRefspecs ==
    \A i \in 1..Len(out) :
        /\ (args.should_delete /\ out[i].ev = "print_branches_to_delete"
                /\ (i < Len(out) \/ pc # "push_to_remote")) =>
               /\ i < Len(out)
               /\ out[i + 1].ev \in PushEvents
               /\ out[i + 1].remote = out[i].remote
        /\ out[i].ev \in PushEvents =>
               /\ i > 1
               /\ out[i - 1].ev = "print_branches_to_delete"
               /\ out[i - 1].remote = out[i].remote
               /\ Len(out[i].items) = out[i - 1].count
               /\ \A n \in 1..Len(out[i].items) :
                      out[i].items[n] =
                          RefsHeads \o StripLeadingRemote(out[i - 1].items[n],
                                                           out[i].remote)
               /\ \A j \in 1..Len(out) :
                      (out[j].ev \in PushEvents
                           /\ out[j].remote = out[i].remote) => j = i

PathUnsafe == {"/", "?", "#", "%", " "}

\* C24: the URL either client builds for a project carries the owner and
\* the repo percent-encoded: '/', '?', '#', '%' and space inside an owner or
\* repo appear as %2F, %3F, %23, %25 and %20, and GitLab writes the slash
\* between owner and repo as %2F.
C24_ProjectPathPercentEncoded ==
    (call.op = "construct_base_url" /\ IsSome(call.ret)) =>
        LET owner == utf8_percent_encode(call.owner)
            repo == utf8_percent_encode(call.repo)
        IN  Unwrap(call.ret) =
                IF call.kind = "GitHub"
                THEN call.base_url \o <<"/", "r", "e", "p", "o", "s", "/">> \o owner \o <<"/">> \o repo
                ELSE call.base_url \o <<"/", "a", "p", "i", "/", "v", "4", "/", "p", "r", "o", "j", "e", "c", "t", "s", "/">>
                         \o owner \o <<"%", "2", "F">> \o repo

\* C25: in every report, the has_push_request flag of an entry is true
\* exactly when a push request is open on the remote reported on whose
\* source branch is the entry's branch.
C25_FlagIffOpenPushRequest ==
    call.op = "report" =>
        \A r \in 1..Len(call.reports) :
            \A n \in 1..Len(call.reports[r].items) :
                LET item == call.reports[r].items[n]
                IN  item.has_push_request <=>
                        \E i \in 1..Len(call.open) :
                            item.branch =
                                call.reports[r].remote_name \o <<"/">>
                                    \o call.open[i].source_branch

\* The listing has asked for `n` pages, each URI once, and stands where the
\* last response sent it: on, when that response named a next page; done,
\* when it had no Link header or no rel="next" entry in it.
GitHubLoopFollowsLinks ==
    /\ Len(gh.requests) <= gh.k
    /\ \A i, j \in 1..Len(gh.requests) :
           i # j => gh.requests[i].uri # gh.requests[j].uri
    /\ gh.pc = "next" => IsSome(NextUri(gh.headers))
    /\ (gh.pc = "done" /\ gh.result = "ok") =>
           /\ NextUri(gh.headers) = None
           /\ Len(gh.requests) = gh.k

\* C26: paginated_request terminates on a chain of k pages: it sends
\* exactly k GET requests, never one URI twice, and returns at the first
\* response without a Link header or without a rel="next" entry.
C26_PaginationTerminates ==
    /\ [](gh.pc # "idle" => GitHubLoopFollowsLinks)
    /\ <>(gh.pc = "done")

\* A chain of three pages was listed with three requests; the last response
\* carried a Link header without a rel="next" entry.
C26_Witness ==
    /\ gh.pc = "done"
    /\ gh.result = "ok"
    /\ gh.k = 3
    /\ Len(gh.requests) = 3
    /\ IsSome(gh.headers)
    /\ NextUri(gh.headers) = None

\* The run has just pushed to the remote whose provider `provider` is.
JustPushed ==
    /\ provider.kind \in ProviderKinds
    /\ out # <<>>
    /\ out[Len(out)].ev \in PushEvents
    /\ out[Len(out)].remote = locals.remote_name

\* C27: in a run of the branches workflow whose listing calls succeeded, no
\* refspec of the deletion push names the source branch of a push request
\* that is open on the provider, whatever the provider's responses looked
\* like, a GitLab HEAD response without a pagination header included.
C27_OpenPushRequestBranchNeverPushed ==
    JustPushed =>
        \A i \in 1..Len(provider.open) :
            ~InSeq(RefsHeads \o provider.open[i].source_branch,
                   out[Len(out)].items)

\* C28: every refspec "+:refs/heads/X" pushed to a remote R is that of a
\* branch printed as a candidate: "R/X" is among the names printed for R, so
\* no ref is deleted whose branch was kept as current, updated since the
\* cutoff, source of a listed push request or protected.
C28_RefspecsNamePrintedCandidates ==
    \A i \in 2..Len(out) :
        out[i].ev \in PushEvents =>
            \A n \in 1..Len(out[i].items) :
                /\ starts_with(out[i].items[n], RefsHeads)
                /\ InSeq(out[i].remote \o <<"/">>
                             \o DropFirst(out[i].items[n], Len(RefsHeads)),
                         out[i - 1].items)

\* A tracking branch that belongs to another remote than the one named.
OfOtherRemote(name, remote_name) == ~starts_with(name, remote_name \o <<"/">>)

\* The branches of the snapshot that are known to track another remote.
ForeignBranches(all_branches, remote_name) ==
    {n \in 1..Len(all_branches) :
        /\ IsSome(all_branches[n].name)
        /\ OfOtherRemote(Unwrap(all_branches[n].name), remote_name)}

\* C29: while a remote R is processed, only tracking branches of R are
\* counted, selected, printed and pushed: the total printed for R leaves
\* out the tracking branches of other remotes, no candidate printed for R
\* is one of them, and no refspec pushed to R comes from one.
C29_OnlyBranchesOfTheRemote ==
    \A i \in 1..Len(out) :
        /\ out[i].ev = "print_branches_to_delete" =>
               /\ \A n \in 1..Len(out[i].items) :
                      ~OfOtherRemote(out[i].items[n], out[i].remote)
               /\ locals.remote_name = out[i].remote =>
                      out[i].total =
                          Len(locals.all_branches)
                              - Cardinality(ForeignBranches(locals.all_branches,
                                                            out[i].remote))
        /\ (out[i].ev \in PushEvents /\ locals.remote_name = out[i].remote) =>
               \A n \in ForeignBranches(locals.all_branches, out[i].remote) :
                   ~InSeq(RefsHeads \o
                              removing_remote_from_tracking_branch(
                                  Unwrap(locals.all_branches[n].name),
                                  out[i].remote),
                          out[i].items)

CloseEvents == {"close_push_request", "close_push_request_failed"}

\* C30: with --delete, clean_push_requests closes the push requests it
\* printed, one call each, in the order of the listing, by the number the
\* provider shows to its users (GitHub number, GitLab iid); a call that
\* fails is the last thing the run does and the run returns the error, the
\* calls made before it stand; and a call is only ever made for a push
\* request of the repository itself that was last updated before the
\* cutoff.
C30_ClosesEligibleInOrderUntilError ==
    \A i \in 1..Len(out) :
        out[i].ev \in CloseEvents =>
            /\ args.should_delete
            /\ \E p \in 1..(i - 1) :
                   /\ out[p].ev = "print_push_requests_to_close"
                   /\ i - p <= Len(out[p].items)
                   /\ \A j \in (p + 1)..i :
                          /\ out[j].ev \in CloseEvents
                          /\ out[j].items = <<out[p].items[j - p]>>
            /\ \A j \in 1..Len(out) :
                   (j # i /\ out[j].ev \in CloseEvents) =>
                       out[j].items # out[i].items
            /\ \E n \in 1..Len(provider.open) :
                   /\ out[i].items = <<provider.open[n].number>>
                   /\ provider.open[n].source_project =
                          provider.open[n].target_project
                   /\ provider.open[n].updated_at < args.since_date
            /\ out[i].ev = "close_push_request_failed" =>
                   /\ i = Len(out)
                   /\ pc = "done"
                   /\ result = "err"

\* Of two push requests to close the first was closed and the call for the
\* second failed.
C30_Witness ==
    /\ Len(out) >= 3
    /\ out[Len(out) - 2].ev = "print_push_requests_to_close"
    /\ out[Len(out) - 2].count = 2
    /\ out[Len(out) - 1].ev = "close_push_request"
    /\ out[Len(out)].ev = "close_push_request_failed"
    /\ result = "err"

=============================================================================
